---------------------------- MODULE Spec2Model ----------------------------
(***************************************************************************)
(* FlowBit: the Action Dispatcher (core/action_router.py), the counters    *)
(* of the memory store (core/memory_store.py) and the anomaly scorer       *)
(* (agents/json_agent.py), as state machines.                              *)
(*                                                                         *)
(* A route_action call is split at its suspension points (the awaits):     *)
(* handler attempts, the backoff sleep that follows a failed attempt, and  *)
(* the two places where the memory store is fetched.                       *)
(***************************************************************************)
EXTENDS Integers, Sequences, FiniteSets, TLC

VARIABLES
    \* ---- ActionRouter (core/action_router.py)
    action_handlers,   \* self.action_handlers: action type -> handler
    retry_attempts,    \* self.retry_attempts
    pc,                \* position of the route_action call in flight
    request,           \* action_request.action_type of the call in flight
    attempt,           \* loop variable of _execute_with_retry (0-based)
    last_exception,    \* last_exception of _execute_with_retry
    exc,               \* the exception e bound by route_action's except clause
    response,          \* what the handler returned (result, line 55)
    start_time,        \* start_time (line 44)
    now,               \* the wall clock, in seconds since the call started
    log,               \* per call: handler attempts and backoff sleeps, in order
    results,           \* ActionResults handed to the caller of the call in flight
    store_down_seen,   \* whether Redis was unreachable at some point of the call
    handled,           \* number of route_action calls started
    \* ---- MemoryStore (core/memory_store.py)
    is_connected,      \* memory_store.is_connected
    redis_up,          \* environment: whether the Redis server answers
    counters,          \* Redis keys counter:<name>
    \* ---- JSONAgent (agents/json_agent.py)
    historical_data,   \* self.historical_data: key -> list of samples
    json_pc,           \* position of the process_json call in flight
    data,              \* the parsed JSON document of the call in flight
    schema_type,       \* schema_type of the call in flight
    detect,            \* locals and return value of _detect_anomalies
    json_out,          \* combined_result and actions of the call in flight
    processed,         \* number of process_json calls started
    history_keys,      \* the keys self.historical_data (a defaultdict) holds
    \* ---- concurrent tasks on the event loop
    task,              \* each concurrent process_json task: position and locals
    running,           \* the task the event loop is running, 0 when it is free
    session,           \* Redis key session:<id>
    caller,            \* each concurrent add_agent_decision / add_action_result call
    \* ---- repeated evaluations of _generate_actions and _detect_anomalies
    utcnow,            \* datetime.utcnow(), in whole seconds
    requests,          \* the ActionRequests the latest evaluation returned
    detected,          \* what successive _detect_anomalies evaluations returned
    \* ---- MemoryStore entries, sessions and agent states
    redis,             \* Redis keys memory:<key>, session:<id>, agent_state:<name>
    reply,             \* what the latest MemoryStore call returned
    written            \* per Redis key: the argument and time of its stores

routerVars == <<action_handlers, retry_attempts, pc, request, attempt,
                last_exception, exc, response, start_time,
                now, log, results, store_down_seen, handled>>
storeVars == <<is_connected, redis_up, counters>>
jsonVars == <<historical_data, json_pc, data, schema_type, detect, json_out,
             processed, history_keys>>
concVars == <<task, running, session, caller>>
policyVars == <<utcnow, requests, detected>>
kvVars == <<redis, reply, written>>
vars == <<routerVars, storeVars, jsonVars, concVars, policyVars, kvVars>>

-----------------------------------------------------------------------------
\* Bounds of the model
MaxRequests == 2        \* route_action calls per behaviour
MaxRetryAttempts == 3   \* retry_attempts is configured within 0..MaxRetryAttempts
AttemptSeconds == 1     \* wall-clock time one handler attempt takes

\* Program constants
DefaultRetryAttempts == 3
RetryDelay == 1

\* Python None as a handler, and as an exception or a response
None == "None"
NoValue == <<"None", 0>>

-----------------------------------------------------------------------------
\* models/schemas.py ActionType
ActionType == {"escalate", "log_and_close", "flag_anomaly",
               "compliance_alert", "risk_alert", "create_ticket"}

\* An action_type value no handler is registered for
UnregisteredType == "archive"
RequestTypes == ActionType \cup {UnregisteredType}

\* A handler plugged into the registry in place of a built-in one: it may
\* return, raise, or never complete.
StubHandler == "stub_handler"
PluggableType == "create_ticket"

\* ActionRouter.__init__: the registry after construction
DefaultHandlers ==
    [t \in ActionType |->
        CASE t = "escalate"         -> "_handle_escalation"
          [] t = "log_and_close"    -> "_handle_log_and_close"
          [] t = "flag_anomaly"     -> "_handle_flag_anomaly"
          [] t = "compliance_alert" -> "_handle_compliance_alert"
          [] t = "risk_alert"       -> "_handle_risk_alert"
          [] t = "create_ticket"    -> "_handle_create_ticket"]

\* The built-in handlers that only sleep and return a dict
SimulatedHandlers == {"_handle_escalation", "_handle_flag_anomaly",
                      "_handle_compliance_alert", "_handle_risk_alert",
                      "_handle_create_ticket"}

\* self.action_handlers.get(action_type)
LookupHandler(t) ==
    IF t \in DOMAIN action_handlers THEN action_handlers[t] ELSE None

\* the counters route_action and process_json increment
CounterNames == {"actions_executed", "actions_failed", "json_processed",
                 "schema_transaction", "schema_order",
                 "json_validation_failures", "anomalies_detected"}


-----------------------------------------------------------------------------
\* MemoryStore

\* get_memory_store() / MemoryStore.connect(): TRUE when the store is handed
\* back, FALSE when connect() raises (Redis does not answer the ping)
StoreObtained == is_connected \/ redis_up

\* is_connected after get_memory_store() was called
ConnectedAfterGet == is_connected \/ redis_up

\* MemoryStore.increment_counter: INCRBY, or the exception swallowed (the
\* counter is left as it is and 0 is returned)
IncrementCounter(name) ==
    IF redis_up
    THEN [counters EXCEPT ![name] = @ + 1]
    ELSE counters

\* environment: the Redis server stops answering
RedisGoesDown ==
    /\ redis_up
    /\ redis_up' = FALSE
    /\ store_down_seen' = (store_down_seen \/ pc \in {"attempt", "awaiting", "try_store", "except"})
    /\ UNCHANGED <<is_connected, counters>>
    /\ UNCHANGED <<action_handlers, retry_attempts, pc, request, attempt,
                   last_exception, exc, response, start_time,
                   now, log, results, handled>>
    /\ UNCHANGED jsonVars
    /\ UNCHANGED concVars
    /\ UNCHANGED <<policyVars, kvVars>>

\* environment: the Redis server answers again
RedisComesUp ==
    /\ ~redis_up
    /\ redis_up' = TRUE
    /\ UNCHANGED <<is_connected, counters>>
    /\ UNCHANGED routerVars
    /\ UNCHANGED jsonVars
    /\ UNCHANGED concVars
    /\ UNCHANGED <<policyVars, kvVars>>

\* the Redis keys of the model: one memory entry, one session, one agent state
RedisKeys == {"memory:k", "session:s", "agent_state:a"}

\* a key with no time to live
NoExpiry == -1

\* an absent key, and a server without keys
AbsentKey == [present |-> FALSE, value |-> <<>>, expires_at |-> NoExpiry]
NoKeys == [k \in RedisKeys |-> AbsentKey]

\* no MemoryStore call has returned yet
NoReply == [op |-> "none", found |-> FALSE, value |-> <<>>]

\* nothing was stored under a key yet
NeverWritten == [stored |-> FALSE, argument |-> <<>>, first |-> 0, last |-> 0]
NothingWritten == [k \in RedisKeys |-> NeverWritten]

\* the value of an absent session:<id> key
NoSession == [exists |-> FALSE, agent_decisions |-> <<>>, actions_triggered |-> <<>>]

-----------------------------------------------------------------------------
\* ActionRouter

\* models/schemas.py ActionResult
ActionResult(t, status, rdata, error, ms) ==
    [action_type |-> t, status |-> status, response_data |-> rdata,
     error_message |-> error, execution_time_ms |-> ms]

\* an exception raised by the program's own code
Exception(name) == <<name, 0>>

\* the exception a handler attempt raises, by its 1-based attempt number
HandlerError(n) == <<"HandlerError", n>>

\* what a handler returns, by handler and 1-based attempt number
HandlerResponse(h, n) == <<h, n>>

\* mutant of BackoffDelay: the 0-based loop index used as the attempt number
BackoffDelayZeroBased(a) == RetryDelay * a

\* asyncio.sleep(self.retry_delay * (attempt + 1)), attempt 0-based
BackoffDelay(a) == RetryDelay * (a + 1)

\* attempt < self.retry_attempts - 1
RetryFollows(a) == a < retry_attempts - 1

Idle == pc = "idle"

\* route_action is over: it returned ("done") or an exception left it ("raised")
Terminated == pc \in {"done", "raised"}

\* the registry is a plain dict attribute: a handler is plugged in
PlugHandler ==
    /\ Idle
    /\ action_handlers[PluggableType] # StubHandler
    /\ action_handlers' = [action_handlers EXCEPT ![PluggableType] = StubHandler]
    /\ UNCHANGED <<retry_attempts, pc, request, attempt, last_exception, exc,
                   response, start_time, now, log, results,
                   store_down_seen, handled>>
    /\ UNCHANGED storeVars
    /\ UNCHANGED jsonVars
    /\ UNCHANGED concVars
    /\ UNCHANGED <<policyVars, kvVars>>

\* retry_attempts is a plain attribute: it is configured
Configure(n) ==
    /\ Idle
    /\ n # retry_attempts
    /\ retry_attempts' = n
    /\ UNCHANGED <<action_handlers, pc, request, attempt, last_exception, exc,
                   response, start_time, now, log, results,
                   store_down_seen, handled>>
    /\ UNCHANGED storeVars
    /\ UNCHANGED jsonVars
    /\ UNCHANGED concVars
    /\ UNCHANGED <<policyVars, kvVars>>

\* route_action lines 43-55 and _execute_with_retry lines 96-98: the call
\* starts, looks the handler up and enters the retry loop
RouteAction(t) ==
    /\ Idle
    /\ handled < MaxRequests
    /\ handled' = handled + 1
    /\ request' = t
    /\ now' = 0
    /\ start_time' = 0
    /\ attempt' = 0
    /\ last_exception' = NoValue
    /\ response' = NoValue
    /\ log' = <<>>
    /\ results' = <<>>
    /\ store_down_seen' = ~redis_up
    /\ IF LookupHandler(t) = None
       THEN /\ exc' = Exception("ValueError")
            /\ pc' = "except"
       ELSE IF retry_attempts = 0
       THEN \* the loop body never runs: raise last_exception with None
            /\ exc' = Exception("TypeError")
            /\ pc' = "except"
       ELSE /\ exc' = NoValue
            /\ pc' = "attempt"
    /\ UNCHANGED <<action_handlers, retry_attempts>>
    /\ UNCHANGED storeVars
    /\ UNCHANGED jsonVars
    /\ UNCHANGED concVars
    /\ UNCHANGED <<policyVars, kvVars>>

\* _execute_with_retry lines 101-109, after an attempt raised e
AfterFailedAttempt(e, elapsed) ==
    /\ last_exception' = e
    /\ IF RetryFollows(attempt)
       THEN /\ log' = log \o <<[kind |-> "raise", n |-> attempt + 1, e |-> e],
                               [kind |-> "sleep", n |-> BackoffDelay(attempt), e |-> NoValue]>>
            /\ now' = now + elapsed + BackoffDelay(attempt)
            /\ attempt' = attempt + 1
            /\ UNCHANGED <<pc, exc>>
       ELSE /\ log' = Append(log, [kind |-> "raise", n |-> attempt + 1, e |-> e])
            /\ now' = now + elapsed
            /\ exc' = e
            /\ pc' = "except"
            /\ UNCHANGED attempt

\* line 100: an attempt of a simulated or plugged handler returns
HandlerReturns ==
    /\ pc = "attempt"
    /\ LookupHandler(request) \in SimulatedHandlers \cup {StubHandler}
    /\ response' = HandlerResponse(LookupHandler(request), attempt + 1)
    /\ log' = Append(log, [kind |-> "return", n |-> attempt + 1, e |-> NoValue])
    /\ now' = now + AttemptSeconds
    /\ pc' = "try_store"
    /\ UNCHANGED <<action_handlers, retry_attempts, request, attempt,
                   last_exception, exc, start_time, results,
                   store_down_seen, handled>>
    /\ UNCHANGED storeVars
    /\ UNCHANGED jsonVars
    /\ UNCHANGED concVars
    /\ UNCHANGED <<policyVars, kvVars>>

\* line 100: an attempt of a plugged handler raises
HandlerRaises ==
    /\ pc = "attempt"
    /\ LookupHandler(request) = StubHandler
    /\ AfterFailedAttempt(HandlerError(attempt + 1), AttemptSeconds)
    /\ UNCHANGED <<action_handlers, retry_attempts, request, response,
                   start_time, results, store_down_seen, handled>>
    /\ UNCHANGED storeVars
    /\ UNCHANGED jsonVars
    /\ UNCHANGED concVars
    /\ UNCHANGED <<policyVars, kvVars>>

\* line 100: an attempt of a plugged handler never completes
HandlerHangs ==
    /\ pc = "attempt"
    /\ LookupHandler(request) = StubHandler
    /\ pc' = "awaiting"
    /\ UNCHANGED <<action_handlers, retry_attempts, request, attempt,
                   last_exception, exc, response, start_time,
                   now, log, results, store_down_seen, handled>>
    /\ UNCHANGED storeVars
    /\ UNCHANGED jsonVars
    /\ UNCHANGED concVars
    /\ UNCHANGED <<policyVars, kvVars>>

\* _handle_log_and_close lines 140-165: get_memory_store() raises when Redis
\* cannot be reached; otherwise store_entry is handed a dict, entry.key raises
\* AttributeError inside its try and again inside its except clause
HandleLogAndClose ==
    /\ pc = "attempt"
    /\ LookupHandler(request) = "_handle_log_and_close"
    /\ is_connected' = ConnectedAfterGet
    /\ AfterFailedAttempt(IF StoreObtained THEN Exception("AttributeError")
                                           ELSE Exception("ConnectionError"), 0)
    /\ UNCHANGED <<action_handlers, retry_attempts, request, response,
                   start_time, results, store_down_seen, handled>>
    /\ UNCHANGED <<redis_up, counters>>
    /\ UNCHANGED jsonVars
    /\ UNCHANGED concVars
    /\ UNCHANGED <<policyVars, kvVars>>

\* route_action lines 57-74, after the handler returned
RecordSuccess ==
    /\ pc = "try_store"
    /\ is_connected' = ConnectedAfterGet
    /\ IF StoreObtained
       THEN /\ counters' = IncrementCounter("actions_executed")
            /\ results' = Append(results,
                   ActionResult(request, "success", response, NoValue, now - start_time))
            /\ pc' = "done"
            /\ UNCHANGED exc
       ELSE \* get_memory_store() raised inside the try block
            /\ exc' = Exception("ConnectionError")
            /\ pc' = "except"
            /\ UNCHANGED <<counters, results>>
    /\ UNCHANGED <<action_handlers, retry_attempts, request, attempt,
                   last_exception, response, start_time, now, log,
                   store_down_seen, handled>>
    /\ UNCHANGED redis_up
    /\ UNCHANGED jsonVars
    /\ UNCHANGED concVars
    /\ UNCHANGED <<policyVars, kvVars>>

\* route_action lines 76-92, the except clause
RecordFailure ==
    /\ pc = "except"
    /\ is_connected' = ConnectedAfterGet
    /\ IF StoreObtained
       THEN /\ counters' = IncrementCounter("actions_failed")
            /\ results' = Append(results,
                   ActionResult(request, "failed", NoValue, exc, now - start_time))
            /\ pc' = "done"
       ELSE \* get_memory_store() raised inside the except clause: the
            \* exception leaves route_action
            /\ pc' = "raised"
            /\ UNCHANGED <<counters, results>>
    /\ UNCHANGED <<action_handlers, retry_attempts, request, attempt,
                   last_exception, exc, response, start_time, now, log,
                   store_down_seen, handled>>
    /\ UNCHANGED redis_up
    /\ UNCHANGED jsonVars
    /\ UNCHANGED concVars
    /\ UNCHANGED <<policyVars, kvVars>>

\* a quotient of two integers, kept exact
Ratio(n, d) == [num |-> n, den |-> d]

\* get_action_statistics lines 279-295: the two counters and the success
\* rate computed from them, in percent
GetActionStatistics ==
    [total_actions_executed |-> counters["actions_executed"],
     total_actions_failed |-> counters["actions_failed"],
     success_rate |->
        IF counters["actions_executed"] > 0
        THEN Ratio((counters["actions_executed"] - counters["actions_failed"]) * 100,
                   counters["actions_executed"])
        ELSE Ratio(0, 1)]

\* the caller takes the ActionResult (or the exception); the router is free
\* for the next call
CallerReceives ==
    /\ Terminated
    /\ pc' = "idle"
    /\ request' = None
    /\ attempt' = 0
    /\ last_exception' = NoValue
    /\ exc' = NoValue
    /\ response' = NoValue
    /\ start_time' = 0
    /\ now' = 0
    /\ log' = <<>>
    /\ results' = <<>>
    /\ store_down_seen' = FALSE
    /\ UNCHANGED <<action_handlers, retry_attempts, handled>>
    /\ UNCHANGED storeVars
    /\ UNCHANGED jsonVars
    /\ UNCHANGED concVars
    /\ UNCHANGED <<policyVars, kvVars>>

-----------------------------------------------------------------------------
\* JSONAgent: parsed JSON documents
\*
\* A JSON value is [t, s, v]: its Python type t, for a string what the code
\* looks at in it (s: empty, plain text, a denylisted SQL or script fragment,
\* an ISO-8601 timestamp without or with the Z suffix), and its number v (the
\* amount, or the minute of a timestamp).

IntV(n) == [t |-> "int", s |-> "", v |-> n]
FloatV(n) == [t |-> "float", s |-> "", v |-> n]
BoolV(b) == [t |-> "bool", s |-> "", v |-> IF b THEN 1 ELSE 0]
NullV == [t |-> "null", s |-> "", v |-> 0]
StrV(c) == [t |-> "str", s |-> c, v |-> 0]
IsoV(m) == [t |-> "str", s |-> "iso", v |-> m]
IsoZV(m) == [t |-> "str", s |-> "isoz", v |-> m]

\* isinstance(x, (int, float)): bool is a subclass of int
IsNumber(x) == x.t \in {"int", "float", "bool"}

\* value is None or value == ""
IsNullOrEmpty(x) == x.t = "null" \/ (x.t = "str" /\ x.s = "empty")

\* value.lower(), on what the code looks at in a string: a fragment written
\* in upper case ("SQL": 'DROP TABLE users', "SCRIPT": '<SCRIPT>') becomes
\* the denylisted lower-case fragment
Lower(c) ==
    CASE c = "SQL" -> "sql"
      [] c = "SCRIPT" -> "script"
      [] OTHER -> c

\* any(pattern in value.lower() for pattern in sql_patterns)
HasSqlPattern(x) == x.t = "str" /\ Lower(x.s) = "sql"

\* any(pattern in value.lower() for pattern in script_patterns)
HasScriptPattern(x) == x.t = "str" /\ Lower(x.s) = "script"

\* variant of ParseTimestamp that accepts every string
ParseTimestampLenient(x) ==
    IF x.t # "str"
    THEN [ok |-> "AttributeError", minute |-> 0, aware |-> FALSE]
    ELSE [ok |-> "ok", minute |-> x.v, aware |-> (x.s = "isoz")]

\* datetime.fromisoformat(x.replace('Z', '+00:00')): the datetime (its minute
\* and whether it carries a UTC offset), or the exception raised
ParseTimestamp(x) ==
    IF x.t # "str"
    THEN [ok |-> "AttributeError", minute |-> 0, aware |-> FALSE]
    ELSE IF x.s \notin {"iso", "isoz"}
    THEN [ok |-> "ValueError", minute |-> 0, aware |-> FALSE]
    ELSE [ok |-> "ok", minute |-> x.v, aware |-> (x.s = "isoz")]

\* the order in which the keys of a document are iterated
FieldOrder == <<"amount", "total", "value", "price", "timestamp", "id",
                "user_id", "count", "active", "email", "note">>

\* the keys of document d, in iteration order
Keys(d) == SelectSeq(FieldOrder, LAMBDA f : f \in DOMAIN d)

-----------------------------------------------------------------------------
\* JSONAgent: scores
\*
\* A score q stands for the float q / ScoreUnit; ScoreUnit is a multiple of
\* 10 and of every possible field count, so every score the code computes
\* (k/10, 0.2 n, 0.5, 0.9, nulls/total) is a whole number of units.

MaxFields == 3          \* bound: top-level fields per document

RECURSIVE Gcd(_, _)
Gcd(a, b) == IF b = 0 THEN a ELSE Gcd(b, a % b)

RECURSIVE LcmUpTo(_)
LcmUpTo(n) == IF n <= 1 THEN 1 ELSE (LcmUpTo(n - 1) * n) \div Gcd(LcmUpTo(n - 1), n)

\* the largest number of fields of a document of the model
MaxDocumentSize == IF MaxFields >= 10 THEN MaxFields ELSE 10

ScoreUnit == 10 * LcmUpTo(MaxDocumentSize)

Tenths(k) == (k * ScoreUnit) \div 10

\* variant of Max2 that adds its arguments
Sum2(a, b) == a + b

Max2(a, b) == IF a >= b THEN a ELSE b
Min2(a, b) == IF a <= b THEN a ELSE b

\* self.anomaly_threshold = 0.8
AnomalyThreshold == Tenths(8)

\* self.anomaly_patterns
MinSamples == 10
ThresholdMultiplier == 3
RapidSuccession == 5
TimeWindowMinutes == 5

\* None, and a sub-detector's {"anomalies": ..., "score": ...}
NoAnomaly == [fired |-> FALSE, anomalies |-> <<>>, score |-> 0]
Anomaly(tags, q) == [fired |-> TRUE, anomalies |-> tags, score |-> q]

-----------------------------------------------------------------------------
\* JSONAgent: history windows

SchemaTypes == {"transaction", "order"}
HistoryKeys == {s \o "_amounts" : s \in SchemaTypes} \cup
               {s \o "_timestamps" : s \in SchemaTypes}

AmountCapacity == 1000
TimestampCapacity == 100

\* variant of LastN that keeps the oldest n entries
FirstN(seq, n) ==
    IF Len(seq) <= n THEN seq ELSE SubSeq(seq, 1, n)

\* seq[-n:]
LastN(seq, n) ==
    IF Len(seq) <= n THEN seq ELSE SubSeq(seq, Len(seq) - n + 1, Len(seq))

\* sum(seq), by halves so that a full window is summed in few nested steps
RECURSIVE SumSeq(_)
SumSeq(seq) ==
    IF seq = <<>> THEN 0
    ELSE IF Len(seq) = 1 THEN seq[1]
    ELSE SumSeq(SubSeq(seq, 1, Len(seq) \div 2))
         + SumSeq(SubSeq(seq, Len(seq) \div 2 + 1, Len(seq)))

\* sum(x * x for x in seq)
SumSquares(seq) == SumSeq([i \in 1..Len(seq) |-> seq[i] * seq[i]])

\* abs(amount - np.mean(h)) > threshold * np.std(h) for a non-empty h, both
\* sides squared and multiplied by len(h)^2: D^2 > threshold^2 V with
\* D = |n a - S| and V = n Q - S^2, where S and Q are the sum and the sum of
\* squares of the samples. Mean and deviation are taken relative to the
\* first sample, which changes neither side, and D^2 > T^2 V is decided from
\* the quotient q and remainder r of D by T (D^2 = T^2 q^2 + 2 T q r + r^2),
\* so that every intermediate value fits a 32-bit integer.
Deviates(amount, h) ==
    LET n == Len(h)
        T == ThresholdMultiplier
        S == SumSeq([i \in 1..n |-> h[i] - h[1]])
        Q == SumSquares([i \in 1..n |-> h[i] - h[1]])
        V == n * Q - S * S
        d == n * (amount - h[1]) - S
        D == IF d >= 0 THEN d ELSE 0 - d
        q == D \div T
        r == D % T
    IN  IF q > 46340
        THEN TRUE
        ELSE V - q * q <= (2 * T * q * r + r * r - 1) \div (T * T)

\* min(abs(amount - mean) / (threshold * std), 1.0), evaluated only where
\* Deviates holds: the quotient exceeds 1 (it is inf for std = 0)
AmountScore(amount, h) == ScoreUnit

-----------------------------------------------------------------------------
\* JSONAgent: the four sub-detectors (d: the document, st: its schema type,
\* hd: self.historical_data)

amount_fields == <<"amount", "total", "value", "price">>

\* variant of EnoughSamples that admits one sample fewer
EnoughSamplesLessOne(h) == Len(h) >= MinSamples - 1

\* len(historical_amounts) >= min_samples
EnoughSamples(h) == Len(h) >= MinSamples

\* _check_amount_anomaly: the first amount field, in the order of
\* amount_fields, whose deviation fires decides the result
RECURSIVE CheckAmountFrom(_, _, _, _)
CheckAmountFrom(i, d, st, hd) ==
    IF i > Len(amount_fields)
    THEN NoAnomaly
    ELSE LET field == amount_fields[i]
             h == hd[st \o "_amounts"]
         IN  IF /\ field \in DOMAIN d
                /\ IsNumber(d[field])
                /\ EnoughSamples(h)
                /\ Deviates(d[field].v, h)
             THEN Anomaly(<<"unusual_" \o field \o "_amount">>,
                          Min2(AmountScore(d[field].v, h), ScoreUnit))
             ELSE CheckAmountFrom(i + 1, d, st, hd)

CheckAmountAnomaly(d, st, hd) == CheckAmountFrom(1, d, st, hd)

\* current_time - ts < time_window raises TypeError when one datetime
\* carries a UTC offset and the other does not
MixedOffsets(cur, events) ==
    \E i \in 1..Len(events) : events[i].aware # cur.aware

\* sum(1 for ts in recent_events if current_time - ts < time_window)
RecentCount(cur, events) ==
    Cardinality({i \in 1..Len(events) :
                    cur.minute - events[i].minute < TimeWindowMinutes})

\* _check_pattern_anomaly raises (AttributeError is not caught) when the
\* timestamp is not a string
PatternRaises(d) ==
    "timestamp" \in DOMAIN d /\ ParseTimestamp(d["timestamp"]).ok = "AttributeError"

\* a parsed top-level JSON array: not a dict, so it has no fields; it stands
\* in the model as a document whose only key is the reserved "[]"
TopLevelArray == "[]" :> NullV

IsObject(d) == "[]" \notin DOMAIN d

\* _check_data_quality raises AttributeError at data.values() when the
\* top-level value is not a dict
QualityRaises(d) == ~IsObject(d)

\* _check_pattern_anomaly
CheckPatternAnomaly(d, st, hd) ==
    IF "timestamp" \notin DOMAIN d
    THEN NoAnomaly
    ELSE LET cur == ParseTimestamp(d["timestamp"])
             events == hd[st \o "_timestamps"]
         IN  IF cur.ok = "ValueError" \/ MixedOffsets(cur, events)
             THEN Anomaly(<<"invalid_timestamp_format">>, Tenths(5))
             ELSE IF RecentCount(cur, events) >= RapidSuccession
             THEN Anomaly(<<"rapid_succession_events">>,
                          Min2(Tenths(RecentCount(cur, events)), ScoreUnit))
             ELSE NoAnomaly

\* the tags the string scan of _check_data_quality appends for the keys ks
RECURSIVE InjectionTags(_, _)
InjectionTags(ks, d) ==
    IF ks = <<>>
    THEN <<>>
    ELSE (IF HasSqlPattern(d[Head(ks)]) THEN <<"potential_sql_injection">> ELSE <<>>)
         \o (IF HasScriptPattern(d[Head(ks)]) THEN <<"potential_script_injection">> ELSE <<>>)
         \o InjectionTags(Tail(ks), d)

\* null_fields / total_fields, in score units
NullPercentage(d) ==
    (Cardinality({f \in DOMAIN d : IsNullOrEmpty(d[f])}) * ScoreUnit)
        \div Cardinality(DOMAIN d)

\* null_percentage > 0.3
ExcessiveNulls(d) ==
    /\ DOMAIN d # {}
    /\ 10 * Cardinality({f \in DOMAIN d : IsNullOrEmpty(d[f])})
           > 3 * Cardinality(DOMAIN d)

\* _check_data_quality
CheckDataQuality(d) ==
    LET nulls == IF ExcessiveNulls(d) THEN <<"excessive_null_values">> ELSE <<>>
        inj == InjectionTags(Keys(d), d)
        s1 == IF ExcessiveNulls(d) THEN Max2(0, NullPercentage(d)) ELSE 0
        s2 == IF inj # <<>> THEN Max2(s1, Tenths(9)) ELSE s1
    IN  IF nulls \o inj = <<>> THEN NoAnomaly ELSE Anomaly(nulls \o inj, s2)

\* expected_types of _check_type_anomalies, in dict order
TypedFields == <<"id", "user_id", "amount", "timestamp", "count", "active", "email">>

\* isinstance(data[field], expected_type)
HasExpectedType(field, x) ==
    CASE field \in {"id", "user_id", "timestamp", "email"} -> x.t = "str"
      [] field = "amount" -> x.t \in {"int", "float", "bool"}
      [] field = "count"  -> x.t \in {"int", "bool"}
      [] field = "active" -> x.t = "bool"

\* variant of CheckTypeAnomalies whose score is capped at 1.0
CheckTypeAnomaliesCapped(d, st) ==
    LET bad == SelectSeq(TypedFields,
                   LAMBDA f : f \in DOMAIN d /\ ~HasExpectedType(f, d[f]))
        tags == [i \in 1..Len(bad) |-> "unexpected_type_" \o bad[i]]
    IN  IF tags = <<>> THEN NoAnomaly
        ELSE Anomaly(tags, Min2(Tenths(2 * Len(bad)), ScoreUnit))

\* _check_type_anomalies
CheckTypeAnomalies(d, st) ==
    LET bad == SelectSeq(TypedFields,
                   LAMBDA f : f \in DOMAIN d /\ ~HasExpectedType(f, d[f]))
        tags == [i \in 1..Len(bad) |-> "unexpected_type_" \o bad[i]]
    IN  IF tags = <<>> THEN NoAnomaly ELSE Anomaly(tags, Tenths(2 * Len(bad)))

\* mutant of Combine: sub-scores added up
CombineBySum(score, sub) == IF sub.fired THEN score + sub.score ELSE score

\* anomaly_score = max(anomaly_score, sub["score"]) when the sub-detector
\* returned a result
Combine(score, sub) == IF sub.fired THEN Max2(score, sub.score) ELSE score

\* mutant of IsNormal: a score equal to the threshold counted as normal
IsNormalInclusive(score) == score <= AnomalyThreshold

\* anomaly_score < self.anomaly_threshold
IsNormal(score) == score < AnomalyThreshold

\* _detect_anomalies: its locals and the dict it returns
DetectAnomalies(d, st, hd) ==
    LET amount_anomaly == CheckAmountAnomaly(d, st, hd)
        pattern_anomaly == CheckPatternAnomaly(d, st, hd)
        quality_anomaly == CheckDataQuality(d)
        type_anomaly == CheckTypeAnomalies(d, st)
        anomalies == amount_anomaly.anomalies \o pattern_anomaly.anomalies
                     \o quality_anomaly.anomalies \o type_anomaly.anomalies
        anomaly_score ==
            Combine(Combine(Combine(Combine(0, amount_anomaly), pattern_anomaly),
                            quality_anomaly), type_anomaly)
    IN  [historical_amounts |-> hd[st \o "_amounts"],
         recent_events |-> hd[st \o "_timestamps"],
         amount_anomaly |-> amount_anomaly,
         pattern_anomaly |-> pattern_anomaly,
         quality_anomaly |-> quality_anomaly,
         type_anomaly |-> type_anomaly,
         raised |-> None,
         result |-> [is_normal |-> IsNormal(anomaly_score),
                     anomalies |-> anomalies,
                     anomaly_score |-> Min2(anomaly_score, ScoreUnit)]]

\* _detect_anomalies left by the AttributeError of _check_pattern_anomaly
\* or of _check_data_quality, after _check_amount_anomaly ran
DetectionRaised(d, st, hd) ==
    [historical_amounts |-> hd[st \o "_amounts"],
     recent_events |-> hd[st \o "_timestamps"],
     amount_anomaly |-> CheckAmountAnomaly(d, st, hd),
     pattern_anomaly |-> NoAnomaly,
     quality_anomaly |-> NoAnomaly,
     type_anomaly |-> NoAnomaly,
     raised |-> "AttributeError",
     result |-> [is_normal |-> FALSE, anomalies |-> <<>>, anomaly_score |-> 0]]

NoDetection ==
    [historical_amounts |-> <<>>,
     recent_events |-> <<>>,
     amount_anomaly |-> NoAnomaly, pattern_anomaly |-> NoAnomaly,
     quality_anomaly |-> NoAnomaly, type_anomaly |-> NoAnomaly,
     raised |-> None,
     result |-> [is_normal |-> TRUE, anomalies |-> <<>>, anomaly_score |-> 0]]

\* _update_historical_data, amounts: each numeric amount field is appended
\* and the window cut to its last 1000 entries
RECURSIVE AppendAmounts(_, _, _)
AppendAmounts(i, d, h) ==
    IF i > Len(amount_fields)
    THEN h
    ELSE LET field == amount_fields[i]
         IN  IF field \in DOMAIN d /\ IsNumber(d[field])
             THEN AppendAmounts(i + 1, d,
                      LastN(Append(h, d[field].v), AmountCapacity))
             ELSE AppendAmounts(i + 1, d, h)

\* _update_historical_data, timestamps: a timestamp that parses is appended
\* and the window cut to its last 100 entries
AppendTimestamp(d, h) ==
    IF "timestamp" \in DOMAIN d /\ ParseTimestamp(d["timestamp"]).ok = "ok"
    THEN LET ts == ParseTimestamp(d["timestamp"])
         IN  LastN(Append(h, [minute |-> ts.minute, aware |-> ts.aware]),
                   TimestampCapacity)
    ELSE h

\* the keys of a defaultdict(list) that _update_historical_data alone has
\* written: it indexes a key only to append to it, so a key is present
\* exactly when its window holds a sample
KeysOf(hd) == {k \in DOMAIN hd : hd[k] # <<>>}

\* _update_historical_data: self.historical_data[key] creates the key when
\* a numeric amount field, or a timestamp that parses, is appended
KeysAfterUpdate(d, st, keys) ==
    keys
    \cup (IF \E i \in 1..Len(amount_fields) :
                amount_fields[i] \in DOMAIN d /\ IsNumber(d[amount_fields[i]])
          THEN {st \o "_amounts"} ELSE {})
    \cup (IF "timestamp" \in DOMAIN d /\ ParseTimestamp(d["timestamp"]).ok = "ok"
          THEN {st \o "_timestamps"} ELSE {})

\* variant of KeysAfterDetect for detectors that read a window by indexing,
\* self.historical_data[key], which inserts a missing key
KeysAfterIndexing(d, st, keys) == KeysAfterUpdate(d, st, keys)

\* _check_amount_anomaly and _check_pattern_anomaly read their window with
\* self.historical_data.get(key, []) (lines 289, 313), which returns the
\* default for a missing key without inserting it
KeysAfterDetect(d, st, keys) == keys

\* variant of UpdateHistoricalData that leaves the windows alone when the
\* record is not normal
UpdateHistoricalDataWhenNormal(d, st, hd) ==
    IF DetectAnomalies(d, st, hd).result.is_normal
    THEN [k \in DOMAIN hd |->
            IF k = st \o "_amounts" THEN AppendAmounts(1, d, hd[k])
            ELSE IF k = st \o "_timestamps" THEN AppendTimestamp(d, hd[k])
            ELSE hd[k]]
    ELSE hd

\* a variant of _update_historical_data whose windows are not per schema
\* type
UpdateHistoricalDataEverySchema(d, st, hd) ==
    [k \in DOMAIN hd |->
        IF k \in {a \o "_amounts" : a \in SchemaTypes}
        THEN AppendAmounts(1, d, hd[k])
        ELSE AppendTimestamp(d, hd[k])]

\* _update_historical_data
UpdateHistoricalData(d, st, hd) ==
    [k \in DOMAIN hd |->
        IF k = st \o "_amounts" THEN AppendAmounts(1, d, hd[k])
        ELSE IF k = st \o "_timestamps" THEN AppendTimestamp(d, hd[k])
        ELSE hd[k]]

-----------------------------------------------------------------------------
\* JSONAgent: schema validation and the action policy

\* self.schema_registry["transaction"]: required fields, and the JSON Schema
\* type of each property a document of Fields can carry ("number" does not
\* admit booleans)
TransactionRequired == {"id", "amount", "timestamp"}
TransactionTypeOk(f, x) ==
    CASE f \in {"id", "timestamp"} -> x.t = "str"
      [] f = "amount" -> x.t \in {"int", "float"}
      [] OTHER -> TRUE

\* _validate_schema(...).is_valid: a schema type without a registered schema
\* passes
SchemaValid(d, st) ==
    IF st # "transaction"
    THEN TRUE
    ELSE /\ IsObject(d)
         /\ TransactionRequired \subseteq DOMAIN d
         /\ \A f \in DOMAIN d : TransactionTypeOk(f, d[f])

\* models/schemas.py ActionRequest (payload and correlation_id left out)
ActionRequest(t, priority) == [action_type |-> t, priority |-> priority]

\* variant of high_risk_anomalies without the injection tags
high_risk_without_injection == {"rapid_succession_events", "unusual_amount"}

\* the fixed list high_risk_anomalies
high_risk_anomalies == {"potential_sql_injection", "potential_script_injection",
                        "rapid_succession_events", "unusual_amount"}

\* any(anomaly in result.anomalies for anomaly in high_risk_anomalies)
HasHighRisk(anomalies) ==
    \E i \in 1..Len(anomalies) : anomalies[i] \in high_risk_anomalies

\* _generate_actions
GenerateActions(result) ==
    (IF ~result.is_valid \/ result.anomaly_score > AnomalyThreshold
     THEN <<ActionRequest("flag_anomaly",
                IF result.anomaly_score > Tenths(8) THEN "high" ELSE "medium")>>
     ELSE <<>>)
    \o (IF HasHighRisk(result.anomalies)
        THEN <<ActionRequest("risk_alert", "critical")>>
        ELSE <<>>)

\* a variant of combined_result whose validity is the schema's alone
CombinedResultSchemaOnly(valid, anomaly_result) ==
    [is_valid |-> valid,
     anomalies |-> anomaly_result.anomalies,
     anomaly_score |-> anomaly_result.anomaly_score]

\* combined_result of process_json (lines 112-119)
CombinedResult(valid, anomaly_result) ==
    [is_valid |-> valid /\ anomaly_result.is_normal,
     anomalies |-> anomaly_result.anomalies,
     anomaly_score |-> anomaly_result.anomaly_score]

\* a string json.loads rejects with JSONDecodeError: there is no parsed
\* document; it stands in the model as a document whose only key is the
\* reserved "<str>"
InvalidJsonString == "<str>" :> StrV("plain")

\* json.loads(json_content) raises JSONDecodeError (line 99)
JsonDecodeError(d) == "<str>" \in DOMAIN d

\* _detect_anomalies was not called
NotScored == [NoDetection EXCEPT !.raised = "JSONDecodeError"]

\* variant of HandleInvalidJson whose request has the default priority
HandleInvalidJsonMedium ==
    [result |-> [is_valid |-> FALSE, anomalies |-> <<"malformed_json">>,
                 anomaly_score |-> ScoreUnit],
     actions |-> <<ActionRequest("flag_anomaly", "medium")>>]

\* _handle_invalid_json: the fixed report and its one request
HandleInvalidJson ==
    [result |-> [is_valid |-> FALSE, anomalies |-> <<"malformed_json">>,
                 anomaly_score |-> ScoreUnit],
     actions |-> <<ActionRequest("flag_anomaly", "high")>>]

\* hash(str(data)): within one interpreter a number that depends on the
\* text of the document only
Hash(d) ==
    SumSeq([i \in 1..Len(Keys(d)) |-> (i * (d[Keys(d)[i]].v + 1)) % 1000])

\* f"{prefix}_{hash(str(data))}_{int(datetime.utcnow().timestamp())}" when
\* utcnow() returns second t
CorrelationId(prefix, d, t) == <<prefix, Hash(d), t>>

\* _generate_actions evaluated when datetime.utcnow() returns second t: the
\* requests with their payloads and correlation ids (str(data)[:500] is the
\* whole text of a document of the model)
GenerateActionsAt(result, d, st, t) ==
    (IF ~result.is_valid \/ result.anomaly_score > AnomalyThreshold
     THEN <<[action_type |-> "flag_anomaly",
             priority |-> IF result.anomaly_score > Tenths(8)
                          THEN "high" ELSE "medium",
             payload |-> [anomaly_type |-> "json_validation_anomaly",
                          schema_type |-> st,
                          anomaly_score |-> result.anomaly_score,
                          anomalies |-> result.anomalies,
                          data_preview |-> d],
             correlation_id |-> CorrelationId("json_anomaly", d, t)]>>
     ELSE <<>>)
    \o (IF HasHighRisk(result.anomalies)
        THEN <<[action_type |-> "risk_alert",
                priority |-> "critical",
                payload |-> [risk_type |-> "data_security",
                             risk_score |-> result.anomaly_score,
                             risk_indicators |-> result.anomalies,
                             affected_entities |->
                                 <<IF "user_id" \in DOMAIN d
                                   THEN d["user_id"] ELSE StrV("unknown")>>,
                             schema_type |-> st,
                             timestamp |-> t],
                correlation_id |-> CorrelationId("json_risk", d, t)]>>
        ELSE <<>>)

\* no evaluation of _generate_actions has been recorded
NotEvaluated == [evaluated |-> FALSE, actions |-> <<>>]

NoOutput == [result |-> [is_valid |-> TRUE, anomalies |-> <<>>, anomaly_score |-> 0],
             actions |-> <<>>]

-----------------------------------------------------------------------------
\* JSONAgent: process_json

MaxRecords == 2         \* bound: process_json calls per behaviour

\* the values the documents of the model give to each field
FieldValues(f) ==
    CASE f = "amount"    -> {IntV(150), IntV(1000), StrV("plain"), NullV}
      [] f = "total"     -> {IntV(1000), BoolV(TRUE)}
      [] f = "timestamp" -> {IsoZV(10), IsoZV(16), IsoV(10), StrV("plain"), IntV(150)}
      [] f = "id"        -> {StrV("plain"), IntV(150)}
      [] f = "user_id"   -> {StrV("sql"), NullV}
      [] f = "count"     -> {IntV(150), StrV("empty")}
      [] f = "active"    -> {BoolV(TRUE), IntV(150)}
      [] f = "note"      -> {StrV("plain"), StrV("sql"), StrV("script"), StrV("empty")}

Fields == {"amount", "total", "timestamp", "id", "user_id", "count", "active", "note"}

\* all documents whose set of keys is S
RECURSIVE DocumentsOver(_)
DocumentsOver(S) ==
    IF S = {}
    THEN {<<>>}
    ELSE LET f == CHOOSE x \in S : TRUE
         IN  {(f :> val) @@ r : val \in FieldValues(f), r \in DocumentsOver(S \ {f})}

\* a document in which every field of expected_types but the timestamp has
\* an unexpected type
MistypedDocument ==
    [f \in {"id", "user_id", "amount", "count", "active", "email"} |->
        IF f \in {"amount", "count"} THEN StrV("plain") ELSE IntV(150)]

\* the fields S of MistypedDocument
Mistyped(S) == [f \in S |-> MistypedDocument[f]]

\* records with exactly four and exactly five fields of unexpected type
FourMistyped == Mistyped({"id", "user_id", "amount", "count"})
FiveMistyped == Mistyped({"id", "user_id", "amount", "count", "active"})

\* a record whose strings carry the denylisted fragments in upper case
UpperCaseInjection == ("note" :> StrV("SQL")) @@ ("id" :> StrV("SCRIPT"))

\* a record of ten fields, three of them null or empty
ThreeNullsOfTen ==
    [f \in {"amount", "total", "value", "price", "timestamp", "id", "user_id",
            "count", "active", "email"} |->
        CASE f \in {"amount", "total", "value", "price"} -> IntV(150)
          [] f = "timestamp" -> IsoZV(16)
          [] f = "id" -> StrV("plain")
          [] f \in {"user_id", "count"} -> NullV
          [] f = "active" -> BoolV(TRUE)
          [] f = "email" -> StrV("empty")]

\* a record stamped six minutes before the events of Burst
EarlierRecord == "timestamp" :> IsoZV(4)

\* the documents a process_json call is given
Documents ==
    UNION {DocumentsOver(S) : S \in {T \in SUBSET Fields : Cardinality(T) <= MaxFields}}
    \cup {MistypedDocument, TopLevelArray, InvalidJsonString, EarlierRecord,
          UpperCaseInjection, ThreeNullsOfTen, FourMistyped, FiveMistyped}

\* the documents of the calls that follow the first
LaterDocuments ==
    {<<>>,
     "amount" :> IntV(1000),
     ("amount" :> IntV(150)) @@ ("timestamp" :> IsoZV(10)),
     ("timestamp" :> IsoV(10)) @@ ("note" :> StrV("script")),
     ("timestamp" :> IntV(150)) @@ ("total" :> IntV(1000))}

\* n samples, alternately 140 and 160 (mean 150, standard deviation 10)
BaselineAmounts(n) == [i \in 1..n |-> IF i % 2 = 1 THEN 140 ELSE 160]

\* n events at minute 10, parsed from timestamps with the Z suffix
Burst(n) == [i \in 1..n |-> [minute |-> 10, aware |-> TRUE]]

\* histories earlier calls have left behind
AmountSeeds == {<<>>, BaselineAmounts(MinSamples - 1), BaselineAmounts(MinSamples)}
TimestampSeeds == {<<>>, Burst(RapidSuccession), Burst(8)}

EmptyHistory == [k \in HistoryKeys |-> <<>>]

SeededHistories ==
    {[k \in HistoryKeys |->
        IF k = "transaction_amounts" THEN a
        ELSE IF k = "transaction_timestamps" THEN t
        ELSE <<>>] : a \in AmountSeeds, t \in TimestampSeeds}

\* a variant of process_json that updates the history before it scores
HistoryWithOwnRecord(d, st, hd) == UpdateHistoricalData(d, st, hd)

\* process_json lines 105-125: self.historical_data as _detect_anomalies
\* finds it, _update_historical_data being called after the report and the
\* actions are computed
HistoryAtDetection(d, st, hd) == hd

\* process_json lines 93-136: a string that does not parse is answered by
\* _handle_invalid_json at once; otherwise the document is scored against
\* the history, then the history is updated; an exception is logged and
\* re-raised
ProcessJson ==
    /\ json_pc = "called"
    /\ IF JsonDecodeError(data)
       THEN /\ detect' = NotScored
            /\ json_out' = HandleInvalidJson
            /\ json_pc' = "returned"
            /\ UNCHANGED <<historical_data, history_keys>>
       ELSE IF PatternRaises(data) \/ QualityRaises(data)
       THEN /\ detect' = DetectionRaised(data, schema_type, historical_data)
            /\ history_keys' = KeysAfterDetect(data, schema_type, history_keys)
            /\ json_pc' = "raised"
            /\ UNCHANGED <<historical_data, json_out>>
       ELSE LET det == DetectAnomalies(data, schema_type,
                           HistoryAtDetection(data, schema_type, historical_data))
                combined == CombinedResult(SchemaValid(data, schema_type), det.result)
            IN  /\ detect' = det
                /\ json_out' = [result |-> combined, actions |-> GenerateActions(combined)]
                /\ historical_data' = UpdateHistoricalData(data, schema_type, historical_data)
                /\ history_keys' =
                       KeysAfterUpdate(data, schema_type,
                           KeysAfterDetect(data, schema_type, history_keys))
                /\ json_pc' = "scored"
    /\ UNCHANGED <<data, schema_type, processed>>
    /\ UNCHANGED <<routerVars, storeVars>>
    /\ UNCHANGED concVars
    /\ UNCHANGED <<policyVars, kvVars>>

\* process_json lines 138-152: the memory store is fetched and the counters
\* are incremented; the result and the actions are returned
RecordJsonCounters ==
    /\ json_pc = "scored"
    /\ is_connected' = ConnectedAfterGet
    /\ IF StoreObtained
       THEN /\ counters' =
                IF redis_up
                THEN [c \in CounterNames |->
                        counters[c]
                        + (IF c = "json_processed" THEN 1 ELSE 0)
                        + (IF c = "schema_" \o schema_type THEN 1 ELSE 0)
                        + (IF c = "json_validation_failures" /\ ~json_out.result.is_valid
                           THEN 1 ELSE 0)
                        + (IF c = "anomalies_detected"
                              /\ json_out.result.anomaly_score > AnomalyThreshold
                           THEN 1 ELSE 0)]
                ELSE counters
            /\ json_pc' = "returned"
       ELSE \* get_memory_store() raised: logged and re-raised
            /\ json_pc' = "raised"
            /\ UNCHANGED counters
    /\ UNCHANGED <<historical_data, history_keys, data, schema_type, detect,
                   json_out, processed>>
    /\ UNCHANGED redis_up
    /\ UNCHANGED routerVars
    /\ UNCHANGED concVars
    /\ UNCHANGED <<policyVars, kvVars>>

\* the next process_json call is made
NextDocument(d, st) ==
    /\ json_pc \in {"returned", "raised"}
    /\ processed < MaxRecords
    /\ processed' = processed + 1
    /\ data' = d
    /\ schema_type' = st
    /\ detect' = NoDetection
    /\ json_out' = NoOutput
    /\ json_pc' = "called"
    /\ UNCHANGED <<historical_data, history_keys>>
    /\ UNCHANGED <<routerVars, storeVars>>
    /\ UNCHANGED concVars
    /\ UNCHANGED <<policyVars, kvVars>>

InitRouter ==
    /\ action_handlers = DefaultHandlers
    /\ retry_attempts = DefaultRetryAttempts
    /\ pc = "idle"
    /\ request = None
    /\ attempt = 0
    /\ last_exception = NoValue
    /\ exc = NoValue
    /\ response = NoValue
    /\ start_time = 0
    /\ now = 0
    /\ log = <<>>
    /\ results = <<>>
    /\ store_down_seen = FALSE
    /\ handled = 0
    \* the module-level MemoryStore() has not connected yet
    /\ is_connected = FALSE
    \* the module-level JSONAgent() has processed nothing
    /\ historical_data = EmptyHistory
    /\ history_keys = KeysOf(historical_data)
    /\ json_pc = "idle"
    /\ data = <<>>
    /\ schema_type = None
    /\ detect = NoDetection
    /\ json_out = NoOutput
    /\ processed = 0
    /\ task = <<>>
    /\ running = 0
    /\ session = NoSession
    /\ caller = <<>>
    /\ utcnow = 0
    /\ requests = NotEvaluated
    /\ detected = <<>>
    /\ redis = NoKeys
    /\ reply = NoReply
    /\ written = NothingWritten
    /\ redis_up \in BOOLEAN
    /\ counters = [c \in CounterNames |-> 0]

NextRouter ==
    \/ \E t \in RequestTypes : RouteAction(t)
    \/ HandlerReturns
    \/ HandlerRaises
    \/ HandlerHangs
    \/ HandleLogAndClose
    \/ RecordSuccess
    \/ RecordFailure
    \/ CallerReceives
    \/ PlugHandler
    \/ \E n \in 0..MaxRetryAttempts : Configure(n)
    \/ RedisGoesDown
    \/ RedisComesUp

SpecRouter == InitRouter /\ [][NextRouter]_vars

\* The event loop keeps running whatever is runnable
FairSpecRouter == SpecRouter /\ WF_vars(NextRouter)

\* A process_json call on a JSONAgent that earlier calls have left with some
\* history; the router is idle
InitJson ==
    /\ action_handlers = DefaultHandlers
    /\ retry_attempts = DefaultRetryAttempts
    /\ pc = "idle"
    /\ request = None
    /\ attempt = 0
    /\ last_exception = NoValue
    /\ exc = NoValue
    /\ response = NoValue
    /\ start_time = 0
    /\ now = 0
    /\ log = <<>>
    /\ results = <<>>
    /\ store_down_seen = FALSE
    /\ handled = 0
    /\ is_connected \in BOOLEAN
    /\ redis_up \in BOOLEAN
    /\ counters = [c \in CounterNames |-> 0]
    /\ historical_data \in SeededHistories
    /\ history_keys = KeysOf(historical_data)
    /\ json_pc = "called"
    /\ data \in Documents
    /\ schema_type \in SchemaTypes
    /\ detect = NoDetection
    /\ json_out = NoOutput
    /\ processed = 1
    /\ task = <<>>
    /\ running = 0
    /\ session = NoSession
    /\ caller = <<>>
    /\ utcnow = 0
    /\ requests = NotEvaluated
    /\ detected = <<>>
    /\ redis = NoKeys
    /\ reply = NoReply
    /\ written = NothingWritten

\* the documents of calls made when the windows are about to fill up
WindowDocuments ==
    {<<>>,
     "amount" :> IntV(1000),
     ("amount" :> IntV(150)) @@ ("timestamp" :> IsoZV(10)),
     ("timestamp" :> IsoV(10)) @@ ("note" :> StrV("script")),
     ("amount" :> IntV(150)) @@ ("total" :> BoolV(TRUE)) @@ ("timestamp" :> IsoZV(16))}

\* histories one entry short of capacity and at capacity
NearFullHistories ==
    {[k \in HistoryKeys |->
        IF k = "transaction_amounts" THEN BaselineAmounts(a)
        ELSE IF k = "transaction_timestamps" THEN Burst(t)
        ELSE <<>>] : a \in {AmountCapacity - 1, AmountCapacity},
                     t \in {TimestampCapacity - 1, TimestampCapacity}}

\* A process_json call on a JSONAgent whose windows earlier calls have
\* filled up
InitWindows ==
    /\ action_handlers = DefaultHandlers
    /\ retry_attempts = DefaultRetryAttempts
    /\ pc = "idle"
    /\ request = None
    /\ attempt = 0
    /\ last_exception = NoValue
    /\ exc = NoValue
    /\ response = NoValue
    /\ start_time = 0
    /\ now = 0
    /\ log = <<>>
    /\ results = <<>>
    /\ store_down_seen = FALSE
    /\ handled = 0
    /\ is_connected \in BOOLEAN
    /\ redis_up \in BOOLEAN
    /\ counters = [c \in CounterNames |-> 0]
    /\ historical_data \in NearFullHistories
    /\ history_keys = KeysOf(historical_data)
    /\ json_pc = "called"
    /\ data \in WindowDocuments
    /\ schema_type \in SchemaTypes
    /\ detect = NoDetection
    /\ json_out = NoOutput
    /\ processed = 1
    /\ task = <<>>
    /\ running = 0
    /\ session = NoSession
    /\ caller = <<>>
    /\ utcnow = 0
    /\ requests = NotEvaluated
    /\ detected = <<>>
    /\ redis = NoKeys
    /\ reply = NoReply
    /\ written = NothingWritten

NextJson ==
    \/ ProcessJson
    \/ RecordJsonCounters
    \/ \E d \in LaterDocuments, st \in SchemaTypes : NextDocument(d, st)

SpecJson == InitJson /\ [][NextJson]_vars

SpecWindows == InitWindows /\ [][NextJson]_vars

-----------------------------------------------------------------------------
\* The Action Policy evaluated repeatedly on one report and one record

MaxClock == 2           \* bound: seconds the wall clock advances

\* the records whose reports the policy is evaluated on
PolicyDocuments ==
    {<<>>,
     "amount" :> IntV(1000),
     ("amount" :> IntV(1000)) @@ ("note" :> StrV("script")) @@ ("user_id" :> StrV("sql")),
     ("amount" :> IntV(150)) @@ ("timestamp" :> IsoZV(10)),
     FourMistyped}

\* _generate_actions(combined_result, data, schema_type) is evaluated
EvaluatePolicy ==
    /\ json_pc = "policy"
    /\ requests' = [evaluated |-> TRUE,
                    actions |-> GenerateActionsAt(json_out.result, data,
                                                  schema_type, utcnow)]
    /\ UNCHANGED <<utcnow, detected>>
    /\ UNCHANGED <<routerVars, storeVars, jsonVars, concVars, kvVars>>

\* a second of wall-clock time passes
ClockTicks ==
    /\ utcnow < MaxClock
    /\ utcnow' = utcnow + 1
    /\ UNCHANGED <<requests, detected>>
    /\ UNCHANGED <<routerVars, storeVars, jsonVars, concVars, kvVars>>

\* A record has been validated and scored against some history, and its
\* combined result is at hand
InitPolicy ==
    /\ action_handlers = DefaultHandlers
    /\ retry_attempts = DefaultRetryAttempts
    /\ pc = "idle"
    /\ request = None
    /\ attempt = 0
    /\ last_exception = NoValue
    /\ exc = NoValue
    /\ response = NoValue
    /\ start_time = 0
    /\ now = 0
    /\ log = <<>>
    /\ results = <<>>
    /\ store_down_seen = FALSE
    /\ handled = 0
    /\ is_connected \in BOOLEAN
    /\ redis_up \in BOOLEAN
    /\ counters = [c \in CounterNames |-> 0]
    /\ historical_data \in SeededHistories
    /\ history_keys = KeysOf(historical_data)
    /\ json_pc = "policy"
    /\ data \in PolicyDocuments
    /\ schema_type \in SchemaTypes
    /\ detect = DetectAnomalies(data, schema_type, historical_data)
    /\ json_out =
           [result |-> CombinedResult(SchemaValid(data, schema_type), detect.result),
            actions |-> <<>>]
    /\ processed = 1
    /\ task = <<>>
    /\ running = 0
    /\ session = NoSession
    /\ caller = <<>>
    /\ utcnow = 0
    /\ requests = NotEvaluated
    /\ detected = <<>>
    /\ redis = NoKeys
    /\ reply = NoReply
    /\ written = NothingWritten

NextPolicy ==
    \/ EvaluatePolicy
    \/ ClockTicks

SpecPolicy == InitPolicy /\ [][NextPolicy]_vars

-----------------------------------------------------------------------------
\* The detectors run repeatedly on one record, with no history update

MaxRuns == 2            \* bound: _detect_anomalies evaluations per behaviour

\* the records the detectors are run on
DetectDocuments ==
    {<<>>,
     "amount" :> IntV(1000),
     ("amount" :> IntV(150)) @@ ("total" :> IntV(1000)) @@ ("timestamp" :> IsoZV(10)),
     ("timestamp" :> IsoV(10)) @@ ("note" :> StrV("script")),
     ("timestamp" :> IntV(150)) @@ ("total" :> IntV(1000)),
     EarlierRecord,
     FourMistyped}

\* _detect_anomalies(data, schema_type) is evaluated
RunDetectors ==
    /\ json_pc = "detecting"
    /\ Len(detected) < MaxRuns
    /\ detect' = IF PatternRaises(data) \/ QualityRaises(data)
                 THEN DetectionRaised(data, schema_type, historical_data)
                 ELSE DetectAnomalies(data, schema_type, historical_data)
    /\ detected' = Append(detected, detect')
    /\ history_keys' = KeysAfterDetect(data, schema_type, history_keys)
    /\ UNCHANGED <<historical_data, json_pc, data, schema_type, json_out, processed>>
    /\ UNCHANGED <<utcnow, requests>>
    /\ UNCHANGED <<routerVars, storeVars, concVars, kvVars>>

\* A record is at hand on an agent that earlier calls have left with some
\* history
InitDetect ==
    /\ action_handlers = DefaultHandlers
    /\ retry_attempts = DefaultRetryAttempts
    /\ pc = "idle"
    /\ request = None
    /\ attempt = 0
    /\ last_exception = NoValue
    /\ exc = NoValue
    /\ response = NoValue
    /\ start_time = 0
    /\ now = 0
    /\ log = <<>>
    /\ results = <<>>
    /\ store_down_seen = FALSE
    /\ handled = 0
    /\ is_connected \in BOOLEAN
    /\ redis_up \in BOOLEAN
    /\ counters = [c \in CounterNames |-> 0]
    /\ historical_data \in SeededHistories
    /\ history_keys = KeysOf(historical_data)
    /\ json_pc = "detecting"
    /\ data \in DetectDocuments
    /\ schema_type \in SchemaTypes
    /\ detect = NoDetection
    /\ json_out = NoOutput
    /\ processed = 1
    /\ task = <<>>
    /\ running = 0
    /\ session = NoSession
    /\ caller = <<>>
    /\ utcnow = 0
    /\ requests = NotEvaluated
    /\ detected = <<>>
    /\ redis = NoKeys
    /\ reply = NoReply
    /\ written = NothingWritten

NextDetect == RunDetectors

SpecDetect == InitDetect /\ [][NextDetect]_vars

-----------------------------------------------------------------------------
\* Concurrent process_json tasks on one asyncio event loop
\*
\* Every task runs process_json on the shared JSONAgent and MemoryStore. The
\* event loop runs one task at a time and takes another one only when the
\* running task suspends or ends. An await of a coroutine that itself awaits
\* no I/O (_validate_schema, _detect_anomalies, _generate_actions,
\* _update_historical_data, get_memory_store() on a connected store) runs
\* through without suspending; an await of a Redis command suspends.

MaxTasks == 2           \* bound: concurrent process_json tasks

Tasks == 1..MaxTasks

\* variant of Suspends in which every await hands the event loop over
SuspendsAtEveryAwait(step) == TRUE

\* whether the await that ends a step of process_json suspends the task
Suspends(step) == step \in {"connect", "increment_counter"}

\* the task on the event loop after task t made the given step
AfterStep(t, step) == IF Suspends(step) THEN 0 ELSE t

\* the event loop can run a step of task t
CanRun(t) == running \in {0, t}

\* variant of Incrby that stores the increment in place of the sum
IncrbyOverwrite(value, increment) == increment

\* Redis INCRBY: executed by the server as one command
Incrby(value, increment) == value + increment

\* the two windows _detect_anomalies reads for schema type st
Windows(st, hd) ==
    [amounts |-> hd[st \o "_amounts"], timestamps |-> hd[st \o "_timestamps"]]

\* the counters process_json increments for a combined result (lines 140-147)
CountersFor(st, result) ==
    <<"json_processed", "schema_" \o st>>
    \o (IF ~result.is_valid THEN <<"json_validation_failures">> ELSE <<>>)
    \o (IF result.anomaly_score > AnomalyThreshold
        THEN <<"anomalies_detected">> ELSE <<>>)

\* a process_json task that has not started
PendingTask(d, st) ==
    [pc |-> "pending", data |-> d, schema_type |-> st,
     seen |-> Windows(st, EmptyHistory),
     result |-> NoOutput.result, left |-> <<>>, acked |-> <<>>]

\* the documents of the concurrent tasks
TaskDocuments ==
    {("amount" :> IntV(150)) @@ ("timestamp" :> IsoZV(10)),
     ("amount" :> IntV(1000)) @@ ("total" :> IntV(150)),
     ("timestamp" :> IntV(150)) @@ ("total" :> IntV(1000))}

\* the histories the tasks start from: empty, or one entry short of capacity
TaskHistories ==
    {EmptyHistory,
     [k \in HistoryKeys |->
        IF k = "transaction_amounts" THEN BaselineAmounts(AmountCapacity - 1)
        ELSE IF k = "transaction_timestamps" THEN Burst(TimestampCapacity - 1)
        ELSE <<>>]}

\* process_json lines 105-122: validation, detection and the combined result
TaskDetects(t) ==
    /\ CanRun(t)
    /\ task[t].pc = "pending"
    /\ IF PatternRaises(task[t].data) \/ QualityRaises(task[t].data)
       THEN /\ task' = [task EXCEPT ![t].pc = "raised"]
            /\ running' = 0
       ELSE LET st == task[t].schema_type
                det == DetectAnomalies(task[t].data, st, historical_data)
            IN  /\ task' = [task EXCEPT
                                ![t].pc = "detected",
                                ![t].seen = Windows(st, historical_data),
                                ![t].result = CombinedResult(
                                    SchemaValid(task[t].data, st), det.result)]
                /\ running' = AfterStep(t, "_detect_anomalies")
    /\ history_keys' =
           KeysAfterDetect(task[t].data, task[t].schema_type, history_keys)
    /\ UNCHANGED <<historical_data, json_pc, data, schema_type, detect, json_out,
                   processed, session, caller>>
    /\ UNCHANGED <<routerVars, storeVars, policyVars, kvVars>>

\* process_json lines 122-125: the actions and the history update
TaskUpdates(t) ==
    /\ CanRun(t)
    /\ task[t].pc = "detected"
    /\ historical_data' =
           UpdateHistoricalData(task[t].data, task[t].schema_type, historical_data)
    /\ history_keys' =
           KeysAfterUpdate(task[t].data, task[t].schema_type, history_keys)
    /\ task' = [task EXCEPT ![t].pc = "updated"]
    /\ running' = AfterStep(t, "_update_historical_data")
    /\ UNCHANGED <<json_pc, data, schema_type, detect, json_out, processed,
                   session, caller>>
    /\ UNCHANGED <<routerVars, storeVars, policyVars, kvVars>>

\* process_json line 139: get_memory_store(); a store that is not connected
\* pings Redis, and raises when Redis does not answer
TaskGetsStore(t) ==
    /\ CanRun(t)
    /\ task[t].pc = "updated"
    /\ is_connected' = ConnectedAfterGet
    /\ IF StoreObtained
       THEN /\ task' = [task EXCEPT
                           ![t].pc = "counting",
                           ![t].left = CountersFor(task[t].schema_type, task[t].result)]
            /\ running' = IF is_connected THEN AfterStep(t, "get_memory_store")
                                           ELSE AfterStep(t, "connect")
       ELSE /\ task' = [task EXCEPT ![t].pc = "raised"]
            /\ running' = 0
    /\ UNCHANGED <<redis_up, counters>>
    /\ UNCHANGED <<jsonVars, session, caller>>
    /\ UNCHANGED <<routerVars, policyVars, kvVars>>

\* process_json lines 140-152: the next increment_counter call; after the
\* last one the result and the actions are returned
TaskIncrements(t) ==
    /\ CanRun(t)
    /\ task[t].pc = "counting"
    /\ LET name == Head(task[t].left)
       IN  /\ counters' = IF redis_up
                          THEN [counters EXCEPT ![name] = Incrby(@, 1)]
                          ELSE counters
           /\ task' = [task EXCEPT
                          ![t].left = Tail(@),
                          ![t].acked = IF redis_up THEN Append(@, name) ELSE @,
                          ![t].pc = IF Len(task[t].left) = 1
                                    THEN "returned" ELSE "counting"]
    /\ running' = IF Len(task[t].left) = 1 THEN 0 ELSE AfterStep(t, "increment_counter")
    /\ UNCHANGED <<is_connected, redis_up>>
    /\ UNCHANGED <<jsonVars, session, caller>>
    /\ UNCHANGED <<routerVars, policyVars, kvVars>>

\* Concurrent process_json tasks created together (asyncio.gather) on an
\* agent that earlier calls have left with some history
InitTasks ==
    /\ action_handlers = DefaultHandlers
    /\ retry_attempts = DefaultRetryAttempts
    /\ pc = "idle"
    /\ request = None
    /\ attempt = 0
    /\ last_exception = NoValue
    /\ exc = NoValue
    /\ response = NoValue
    /\ start_time = 0
    /\ now = 0
    /\ log = <<>>
    /\ results = <<>>
    /\ store_down_seen = FALSE
    /\ handled = 0
    /\ is_connected \in BOOLEAN
    /\ redis_up \in BOOLEAN
    /\ counters = [c \in CounterNames |-> 0]
    /\ historical_data \in TaskHistories
    /\ history_keys = KeysOf(historical_data)
    /\ json_pc = "idle"
    /\ data = <<>>
    /\ schema_type = None
    /\ detect = NoDetection
    /\ json_out = NoOutput
    /\ processed = 0
    /\ task \in [Tasks -> {PendingTask(d, st) : d \in TaskDocuments, st \in SchemaTypes}]
    /\ running = 0
    /\ session = NoSession
    /\ caller = <<>>
    /\ utcnow = 0
    /\ requests = NotEvaluated
    /\ detected = <<>>
    /\ redis = NoKeys
    /\ reply = NoReply
    /\ written = NothingWritten

NextTasks ==
    \/ \E t \in Tasks : TaskDetects(t)
    \/ \E t \in Tasks : TaskUpdates(t)
    \/ \E t \in Tasks : TaskGetsStore(t)
    \/ \E t \in Tasks : TaskIncrements(t)

SpecTasks == InitTasks /\ [][NextTasks]_vars

-----------------------------------------------------------------------------
\* MemoryStore sessions: concurrent add_agent_decision / add_action_result
\*
\* Each call reads the session blob (get_session), appends to its own copy
\* and writes the whole blob back (store_session); both Redis commands
\* suspend the call, so other calls run in between.

MaxCallers == 2         \* bound: concurrent calls on one session

Callers == 1..MaxCallers

SessionOps == {"add_agent_decision", "add_action_result"}

\* a session as store_session(ProcessingSession(...)) first wrote it
NewSession == [exists |-> TRUE, agent_decisions |-> <<>>, actions_triggered |-> <<>>]

\* a call that has not started; call c appends the item c
NewCall(op) == [pc |-> "called", op |-> op, local |-> NoSession, returned |-> FALSE]

\* session.agent_decisions.append(decision) /
\* session.actions_triggered.append(action_result), for the item x
Appended(op, local_session, x) ==
    IF op = "add_agent_decision"
    THEN [local_session EXCEPT !.agent_decisions = Append(@, x)]
    ELSE [local_session EXCEPT !.actions_triggered = Append(@, x)]

\* get_session: the blob is read and parsed; a missing key or a Redis error
\* gives None, and the call returns False
GetSession(c) ==
    /\ caller[c].pc = "called"
    /\ caller' = IF redis_up /\ session.exists
                 THEN [caller EXCEPT ![c].pc = "loaded", ![c].local = session]
                 ELSE [caller EXCEPT ![c].pc = "returned", ![c].returned = FALSE]
    /\ UNCHANGED <<session, task, running>>
    /\ UNCHANGED <<routerVars, storeVars, jsonVars, policyVars, kvVars>>

\* the append on the local copy and store_session: SETEX of the whole blob;
\* a Redis error makes store_session, and the call, return False
StoreSession(c) ==
    /\ caller[c].pc = "loaded"
    /\ session' = IF redis_up
                  THEN Appended(caller[c].op, caller[c].local, c)
                  ELSE session
    /\ caller' = [caller EXCEPT ![c].pc = "returned", ![c].returned = redis_up]
    /\ UNCHANGED <<task, running>>
    /\ UNCHANGED <<routerVars, storeVars, jsonVars, policyVars, kvVars>>

\* Concurrent calls on one session id, which may or may not be stored
InitSession ==
    /\ action_handlers = DefaultHandlers
    /\ retry_attempts = DefaultRetryAttempts
    /\ pc = "idle"
    /\ request = None
    /\ attempt = 0
    /\ last_exception = NoValue
    /\ exc = NoValue
    /\ response = NoValue
    /\ start_time = 0
    /\ now = 0
    /\ log = <<>>
    /\ results = <<>>
    /\ store_down_seen = FALSE
    /\ handled = 0
    /\ is_connected = TRUE
    /\ redis_up \in BOOLEAN
    /\ counters = [n \in CounterNames |-> 0]
    /\ historical_data = EmptyHistory
    /\ history_keys = KeysOf(historical_data)
    /\ json_pc = "idle"
    /\ data = <<>>
    /\ schema_type = None
    /\ detect = NoDetection
    /\ json_out = NoOutput
    /\ processed = 0
    /\ task = <<>>
    /\ running = 0
    /\ session \in {NoSession, NewSession}
    /\ caller \in [Callers -> {NewCall(op) : op \in SessionOps}]
    /\ utcnow = 0
    /\ requests = NotEvaluated
    /\ detected = <<>>
    /\ redis = NoKeys
    /\ reply = NoReply
    /\ written = NothingWritten

NextSession ==
    \/ \E c \in Callers : GetSession(c)
    \/ \E c \in Callers : StoreSession(c)
    \/ RedisGoesDown
    \/ RedisComesUp

SpecSession == InitSession /\ [][NextSession]_vars

-----------------------------------------------------------------------------
\* MemoryStore: entries, sessions and agent states as JSON texts in Redis
\*
\* Time is utcnow in seconds.  An entry's value is any Python object; what
\* Redis holds is the JSON text json.dumps (or pydantic) makes of it, and
\* what a get returns is what json.loads makes of that text.

MaxHours == 25          \* bound: hours the wall clock advances
MaxDecisions == 2       \* bound: decisions appended to the session

\* the hours of a day
DayHours == 24

\* the time to live store_session gives a session key
SessionTtl == 86400

\* the time to live store_agent_state gives an agent state key
AgentStateTtl == 3600

\* one hour, in seconds
Hour == 60 * 60

\* a Python object of type t
Py(t) == [t |-> t, v |-> 1]

\* the types that JSON represents as themselves
JsonNativeTypes == {"dict", "list", "str", "int", "float", "bool", "NoneType"}

\* a dict with integer keys, a tuple, a set and a datetime are Python
\* objects as well
PyTypes == JsonNativeTypes \cup {"intkey_dict", "tuple", "set", "datetime"}

\* json.dumps raises TypeError on a set or a datetime
JsonDumpsRaises(x) == x.t \in {"set", "datetime"}

\* the JSON text json.dumps writes for a Python object
JsonDumps(x) ==
    [json |-> CASE x.t \in {"dict", "intkey_dict"} -> "object"
                [] x.t \in {"list", "tuple"} -> "array"
                [] x.t = "str" -> "string"
                [] x.t = "int" -> "integer"
                [] x.t = "float" -> "real"
                [] x.t = "bool" -> "boolean"
                [] OTHER -> "null",
     v |-> x.v]

\* pydantic's JSON serialiser also writes a set as an array and a datetime
\* as a string, and raises on neither
PydanticDumps(x) ==
    [json |-> CASE x.t \in {"dict", "intkey_dict"} -> "object"
                [] x.t \in {"list", "tuple", "set"} -> "array"
                [] x.t \in {"str", "datetime"} -> "string"
                [] x.t = "int" -> "integer"
                [] x.t = "float" -> "real"
                [] x.t = "bool" -> "boolean"
                [] OTHER -> "null",
     v |-> x.v]

\* the Python object json.loads reads from a JSON text
JsonLoads(j) ==
    [t |-> CASE j.json = "object" -> "dict"
             [] j.json = "array" -> "list"
             [] j.json = "string" -> "str"
             [] j.json = "integer" -> "int"
             [] j.json = "real" -> "float"
             [] j.json = "boolean" -> "bool"
             [] OTHER -> "NoneType",
     v |-> j.v]

\* a datetime: seconds since the start, naive or aware (UTC)
DateTime(s, tz) == [second |-> s, tzinfo |-> tz]

\* datetime.isoformat(): an aware datetime carries its offset
IsoFormat(dt) ==
    [iso |-> dt.second, offset |-> IF dt.tzinfo = "utc" THEN "+00:00" ELSE ""]

\* a variant of fromisoformat that drops the offset
FromIsoFormatNaive(x) == DateTime(x.iso, "naive")

\* datetime.fromisoformat()
FromIsoFormat(x) ==
    DateTime(x.iso, IF x.offset = "+00:00" THEN "utc" ELSE "naive")

\* MemoryEntry(key, value, entry_type, agent_source, timestamp, ttl_seconds)
MemoryEntry(value, timestamp, ttl) ==
    [key |-> "k", value |-> value, entry_type |-> "test",
     agent_source |-> "test_agent", timestamp |-> timestamp,
     ttl_seconds |-> ttl]

\* ttl_seconds = None
NoTtl == 0

\* the entries a caller stores: any value, a naive or an aware timestamp,
\* and one entry with a time to live of one hour
Entries ==
    {MemoryEntry(Py(ty), DateTime(0, "naive"), NoTtl) : ty \in PyTypes}
    \cup {MemoryEntry(Py("dict"), DateTime(0, "utc"), NoTtl),
          MemoryEntry(Py("dict"), DateTime(0, "naive"), Hour)}

\* AgentDecision(agent_name, timestamp)
AgentDecision(t) == [agent_name |-> "json_agent", timestamp |-> DateTime(t, "naive")]

\* ProcessingSession(session_id, input_metadata, agent_decisions)
ProcessingSession(metadata) ==
    [session_id |-> "s", input_metadata |-> metadata, agent_decisions |-> <<>>]

\* the sessions a caller stores
Sessions == {ProcessingSession(Py(ty)) : ty \in {"dict", "tuple"}}

\* the agent states a caller stores
AgentStates == {Py("dict"), Py("intkey_dict")}

\* session.model_dump_json()
ModelDumpJson(s) ==
    [session_id |-> s.session_id,
     input_metadata |-> PydanticDumps(s.input_metadata),
     agent_decisions |->
        [i \in 1..Len(s.agent_decisions) |->
            [agent_name |-> s.agent_decisions[i].agent_name,
             timestamp |-> IsoFormat(s.agent_decisions[i].timestamp)]]]

\* ProcessingSession.model_validate_json(data)
ModelValidateJson(j) ==
    [session_id |-> j.session_id,
     input_metadata |-> JsonLoads(j.input_metadata),
     agent_decisions |->
        [i \in 1..Len(j.agent_decisions) |->
            [agent_name |-> j.agent_decisions[i].agent_name,
             timestamp |-> FromIsoFormat(j.agent_decisions[i].timestamp)]]]

\* the key holds a value that has not expired
Live(k) == redis[k].present

\* SET key value / SETEX key ttl value at the present time
RedisSet(k, value, ttl) ==
    [redis EXCEPT ![k] =
        [present |-> TRUE, value |-> value,
         expires_at |-> IF ttl = NoTtl THEN NoExpiry ELSE utcnow + ttl]]

\* the record of a successful store of argument x under key k: first is
\* the time of the store that created or replaced the value, last the time
\* of the latest store or append
Wrote(k, x, first) ==
    [written EXCEPT ![k] =
        [stored |-> TRUE, argument |-> x, first |-> first, last |-> utcnow]]

\* a call returned value x; found tells a result from None
Returned(op, found, x) == [op |-> op, found |-> found, value |-> x]

\* the client was created and the server answers
Reachable == is_connected /\ redis_up

\* Every key has its own prefix and no call on one key reads or writes
\* another, so a behaviour works on one key: k is the only key stored so far
OnlyKey(k) == \A other \in RedisKeys \ {k} : ~written[other].stored

\* store_entry(entry)
StoreEntry(entry) ==
    /\ OnlyKey("memory:k")
    /\ IF Reachable /\ ~JsonDumpsRaises(entry.value)
       THEN /\ redis' = RedisSet("memory:k",
                            [value |-> JsonDumps(entry.value),
                             entry_type |-> entry.entry_type,
                             agent_source |-> entry.agent_source,
                             timestamp |-> IsoFormat(entry.timestamp)],
                            entry.ttl_seconds)
            /\ written' = Wrote("memory:k", entry, utcnow)
            /\ reply' = Returned("store_entry", TRUE, <<>>)
       ELSE /\ reply' = Returned("store_entry", FALSE, <<>>)
            /\ UNCHANGED <<redis, written>>
    /\ UNCHANGED <<routerVars, storeVars, jsonVars, concVars, policyVars>>

\* get_entry(key)
GetEntry ==
    /\ OnlyKey("memory:k")
    /\ IF Reachable /\ Live("memory:k")
       THEN reply' = Returned("get_entry", TRUE,
                        [key |-> "k",
                         value |-> JsonLoads(redis["memory:k"].value.value),
                         entry_type |-> redis["memory:k"].value.entry_type,
                         agent_source |-> redis["memory:k"].value.agent_source,
                         timestamp |-> FromIsoFormat(redis["memory:k"].value.timestamp),
                         ttl_seconds |-> NoTtl])
       ELSE reply' = Returned("get_entry", FALSE, <<>>)
    /\ UNCHANGED <<redis, written>>
    /\ UNCHANGED <<routerVars, storeVars, jsonVars, concVars, policyVars>>

\* store_session(session): SETEX with the 24 hour time to live
StoreSessionWithTtl(s) ==
    /\ OnlyKey("session:s")
    /\ IF Reachable
       THEN /\ redis' = RedisSet("session:s", ModelDumpJson(s), SessionTtl)
            /\ written' = Wrote("session:s", s, utcnow)
            /\ reply' = Returned("store_session", TRUE, <<>>)
       ELSE /\ reply' = Returned("store_session", FALSE, <<>>)
            /\ UNCHANGED <<redis, written>>
    /\ UNCHANGED <<routerVars, storeVars, jsonVars, concVars, policyVars>>

\* get_session(session_id)
GetStoredSession ==
    /\ OnlyKey("session:s")
    /\ IF Reachable /\ Live("session:s")
       THEN reply' = Returned("get_session", TRUE,
                        ModelValidateJson(redis["session:s"].value))
       ELSE reply' = Returned("get_session", FALSE, <<>>)
    /\ UNCHANGED <<redis, written>>
    /\ UNCHANGED <<routerVars, storeVars, jsonVars, concVars, policyVars>>

\* the session read back with one more decision
WithDecision(j, d) ==
    [ModelValidateJson(j) EXCEPT
        !.agent_decisions = Append(ModelValidateJson(j).agent_decisions, d)]

\* a variant of add_agent_decision that keeps the key's deadline (KEEPTTL)
AddAgentDecisionKeepTtl(d) ==
    /\ Len(redis["session:s"].value.agent_decisions) < MaxDecisions
    /\ redis' = [redis EXCEPT !["session:s"].value =
                    ModelDumpJson(WithDecision(redis["session:s"].value, d))]
    /\ written' = Wrote("session:s", WithDecision(redis["session:s"].value, d),
                        written["session:s"].first)
    /\ reply' = Returned("add_agent_decision", TRUE, <<>>)

\* add_agent_decision(session_id, decision): get_session, append,
\* store_session
AddAgentDecisionFound(d) ==
    /\ Len(redis["session:s"].value.agent_decisions) < MaxDecisions
    /\ redis' = RedisSet("session:s",
                    ModelDumpJson(WithDecision(redis["session:s"].value, d)),
                    SessionTtl)
    /\ written' = Wrote("session:s", WithDecision(redis["session:s"].value, d),
                        written["session:s"].first)
    /\ reply' = Returned("add_agent_decision", TRUE, <<>>)

AddAgentDecision ==
    /\ OnlyKey("session:s")
    /\ IF Reachable /\ Live("session:s")
       THEN AddAgentDecisionFound(AgentDecision(utcnow))
       ELSE /\ reply' = Returned("add_agent_decision", FALSE, <<>>)
            /\ UNCHANGED <<redis, written>>
    /\ UNCHANGED <<routerVars, storeVars, jsonVars, concVars, policyVars>>

\* store_agent_state(agent_name, state): SETEX with the 1 hour time to live
StoreAgentState(state) ==
    /\ OnlyKey("agent_state:a")
    /\ IF Reachable
       THEN /\ redis' = RedisSet("agent_state:a",
                            [state |-> JsonDumps(state),
                             last_updated |-> IsoFormat(DateTime(utcnow, "naive"))],
                            AgentStateTtl)
            /\ written' = Wrote("agent_state:a", state, utcnow)
            /\ reply' = Returned("store_agent_state", TRUE, <<>>)
       ELSE /\ reply' = Returned("store_agent_state", FALSE, <<>>)
            /\ UNCHANGED <<redis, written>>
    /\ UNCHANGED <<routerVars, storeVars, jsonVars, concVars, policyVars>>

\* get_agent_state(agent_name)
GetAgentState ==
    /\ OnlyKey("agent_state:a")
    /\ IF Reachable /\ Live("agent_state:a")
       THEN reply' = Returned("get_agent_state", TRUE,
                        JsonLoads(redis["agent_state:a"].value.state))
       ELSE reply' = Returned("get_agent_state", FALSE, <<>>)
    /\ UNCHANGED <<redis, written>>
    /\ UNCHANGED <<routerVars, storeVars, jsonVars, concVars, policyVars>>

\* the server drops every key whose deadline has come at time t
Evicted(t) ==
    [k \in RedisKeys |->
        IF redis[k].present /\ redis[k].expires_at # NoExpiry
                            /\ redis[k].expires_at <= t
        THEN AbsentKey
        ELSE redis[k]]

\* an hour, or the rest of a day, goes by
TimePasses(hours) ==
    /\ utcnow + hours * Hour <= MaxHours * Hour
    /\ utcnow' = utcnow + hours * Hour
    /\ redis' = Evicted(utcnow + hours * Hour)
    /\ UNCHANGED <<reply, written, requests, detected>>
    /\ UNCHANGED <<routerVars, storeVars, jsonVars, concVars>>

InitStore ==
    /\ action_handlers = DefaultHandlers
    /\ retry_attempts = DefaultRetryAttempts
    /\ pc = "idle"
    /\ request = None
    /\ attempt = 0
    /\ last_exception = NoValue
    /\ exc = NoValue
    /\ response = NoValue
    /\ start_time = 0
    /\ now = 0
    /\ log = <<>>
    /\ results = <<>>
    /\ store_down_seen = FALSE
    /\ handled = 0
    /\ is_connected = TRUE
    /\ redis_up \in BOOLEAN
    /\ counters = [n \in CounterNames |-> 0]
    /\ historical_data = EmptyHistory
    /\ history_keys = KeysOf(historical_data)
    /\ json_pc = "idle"
    /\ data = <<>>
    /\ schema_type = None
    /\ detect = NoDetection
    /\ json_out = NoOutput
    /\ processed = 0
    /\ task = <<>>
    /\ running = 0
    /\ session = NoSession
    /\ caller = <<>>
    /\ utcnow = 0
    /\ requests = NotEvaluated
    /\ detected = <<>>
    /\ redis = NoKeys
    /\ reply = NoReply
    /\ written = NothingWritten

NextStore ==
    \/ \E entry \in Entries : StoreEntry(entry)
    \/ GetEntry
    \/ \E s \in Sessions : StoreSessionWithTtl(s)
    \/ GetStoredSession
    \/ AddAgentDecision
    \/ \E state \in AgentStates : StoreAgentState(state)
    \/ GetAgentState
    \/ \E hours \in {1, DayHours - 1} : TimePasses(hours)

SpecStore == InitStore /\ [][NextStore]_vars

-----------------------------------------------------------------------------
\* Properties of the Action Dispatcher

\* the handler attempts of the call in flight, in order
Attempts == SelectSeq(log, LAMBDA ev : ev.kind \in {"raise", "return"})

LastOf(seq) == seq[Len(seq)]

\* C1: every route_action call that is over has handed its caller exactly
\* one ActionResult, whose status is 'success' or 'failed'; never zero or
\* several results.
C1_ExactlyOneResult ==
    Terminated =>
        /\ Len(results) = 1
        /\ results[1].status \in {"success", "failed"}

\* C2: no exception ever leaves route_action, whatever the memory store does.
C2_NeverPropagates == pc # "raised"

\* C3: the dispatcher never waits forever on one attempt: an attempt that
\* does not complete is eventually abandoned (counted as failed) and the
\* call moves on to the next retry or to its terminal result.
C3_HungAttemptAbandoned == (pc = "awaiting") ~> (pc # "awaiting")

\* C4: when the handler raised on attempts 1..k-1 and returned on attempt k,
\* the call returns 'success' with the response of attempt k, the handler
\* was invoked exactly k times, nothing follows the successful attempt, and
\* execution_time_ms covers all k attempts and the waits between them.
C4_SuccessAfterRetries ==
    (Terminated /\ Attempts # <<>> /\ LastOf(Attempts).kind = "return") =>
        LET k == LastOf(Attempts).n IN
        /\ Len(results) = 1
        /\ results[1].status = "success"
        /\ results[1].response_data = response
        /\ response[2] = k
        /\ Len(Attempts) = k
        /\ LastOf(log).kind = "return"
        /\ results[1].execution_time_ms = now - start_time

\* C5: when the handler raised on every attempt, it was invoked exactly
\* retry_attempts times and the call returns exactly one 'failed'
\* ActionResult that carries the exception of the last attempt and no
\* response_data.
C5_FailureAfterExhaustion ==
    (Terminated /\ Attempts # <<>> /\ LastOf(Attempts).kind = "raise") =>
        /\ Len(Attempts) = retry_attempts
        /\ Len(results) = 1
        /\ results[1].status = "failed"
        /\ results[1].error_message = LastOf(Attempts).e
        /\ results[1].response_data = NoValue

\* C6: the dispatcher sleeps retry_delay x n after failed attempt n whenever
\* another attempt follows, and at no other time: not before the first
\* attempt, not after a successful attempt, not after the final failed one.
C6_LinearBackoff ==
    \A i \in 1..Len(log) :
        /\ log[i].kind = "sleep" =>
              /\ i > 1
              /\ log[i-1].kind = "raise"
              /\ log[i-1].n < retry_attempts
              /\ log[i].n = RetryDelay * log[i-1].n
        /\ (log[i].kind = "raise" /\ log[i].n < retry_attempts) =>
              /\ i < Len(log)
              /\ log[i+1].kind = "sleep"
        /\ (log[i].kind = "raise" /\ log[i].n >= retry_attempts) => i = Len(log)
        /\ log[i].kind = "return" => i = Len(log)

\* C6 witness: three failed attempts under the default configuration, with
\* waits of 1 s and 2 s between them and none after the third
C6_Witness ==
    /\ pc = "done"
    /\ retry_attempts = DefaultRetryAttempts
    /\ Len(log) = 5
    /\ log[1].kind = "raise" /\ log[2].kind = "sleep" /\ log[2].n = 1
    /\ log[3].kind = "raise" /\ log[4].kind = "sleep" /\ log[4].n = 2
    /\ log[5].kind = "raise"

\* C7: a request whose action_type has no registered handler gets a 'failed'
\* ActionResult at once: no handler attempt, no retry, no backoff wait.
C7_UnknownTypeFailsAtOnce ==
    (Terminated /\ request \notin DOMAIN action_handlers) =>
        /\ log = <<>>
        /\ Len(results) = 1
        /\ results[1].status = "failed"

\* C8: with the memory store reachable during the whole call, a request of
\* any of the six registered action types, served by its built-in handler,
\* gets an ActionResult with status 'success'.
C8_BuiltinHandlersSucceed ==
    (/\ Terminated
     /\ request \in ActionType
     /\ action_handlers[request] = DefaultHandlers[request]
     /\ retry_attempts = DefaultRetryAttempts
     /\ ~store_down_seen) =>
        /\ Len(results) = 1
        /\ results[1].status = "success"

-----------------------------------------------------------------------------
\* Properties of the Anomaly Scorer

\* the results of the sub-detectors that fired, and their sub-scores
FiredSubResults ==
    {r \in {detect.amount_anomaly, detect.pattern_anomaly,
            detect.quality_anomaly, detect.type_anomaly} : r.fired}
FiredScores == {r.score : r \in FiredSubResults}

SetMax(S) == IF S = {} THEN 0 ELSE CHOOSE m \in S : \A x \in S : x <= m

\* _detect_anomalies has returned its report for the record in flight
ReportReturned == json_pc # "called" /\ detect.raised = None

\* C9: the anomaly_score of every report is the largest sub-score among the
\* sub-detectors that fired, capped at 1.0, and 0.0 when none fired; it is
\* never their sum.
C9_ScoreIsMaxOfSubscores ==
    ReportReturned =>
        detect.result.anomaly_score = Min2(SetMax(FiredScores), ScoreUnit)

\* C9 witness: the rate detector and the data-quality detector both fire
\* with sub-score 0.5, and the report's score is 0.5
C9_Witness ==
    /\ ReportReturned
    /\ detect.pattern_anomaly.fired /\ detect.pattern_anomaly.score = Tenths(5)
    /\ detect.quality_anomaly.fired /\ detect.quality_anomaly.score = Tenths(5)
    /\ detect.result.anomaly_score = Tenths(5)

\* C10: in every report 0 <= anomaly_score <= 1, and is_normal holds exactly
\* when the reported anomaly_score is strictly below the threshold 0.8.
C10_ScoreRangeAndNormality ==
    ReportReturned =>
        /\ 0 <= detect.result.anomaly_score
        /\ detect.result.anomaly_score <= ScoreUnit
        /\ detect.result.is_normal <=> (10 * detect.result.anomaly_score < 8 * ScoreUnit)

\* C10 witness: a report whose score equals the threshold 0.8 and which is
\* not normal
C10_Witness ==
    /\ ReportReturned
    /\ 10 * detect.result.anomaly_score = 8 * ScoreUnit
    /\ ~detect.result.is_normal

-----------------------------------------------------------------------------
\* Anomaly Scorer error handling and Action Policy

HasTag(tags, x) == \E i \in 1..Len(tags) : tags[i] = x

\* the number of requests of action type t in actions
CountOf(actions, t) ==
    Cardinality({i \in 1..Len(actions) : actions[i].action_type = t})

\* the unusual-amount tags unusual_<field>_amount
UnusualAmountTags ==
    {"unusual_" \o amount_fields[i] \o "_amount" : i \in 1..Len(amount_fields)}

\* the high-risk set as documented: injection, rapid succession, unusual amount
DocumentedHighRisk ==
    {"potential_sql_injection", "potential_script_injection",
     "rapid_succession_events"} \cup UnusualAmountTags

\* C11: whatever the shape of the parsed record and the types of its field
\* values, process_json is never left by an exception raised while the
\* record is scored; it returns a report.
C11_ScoringNeverRaises ==
    json_pc = "raised" => detect.raised = None

\* C12: whenever a tag of the report is in the documented high-risk set
\* (injection, rapid succession, unusual_<field>_amount), the actions hold
\* exactly one risk_alert request, and it has priority critical.
C12_RiskAlertForHighRiskTag ==
    (ReportReturned
     /\ \E x \in DocumentedHighRisk : HasTag(json_out.result.anomalies, x))
    => /\ CountOf(json_out.actions, "risk_alert") = 1
       /\ \A i \in 1..Len(json_out.actions) :
             json_out.actions[i].action_type = "risk_alert"
                 => json_out.actions[i].priority = "critical"

\* C13: the actions hold exactly one flag_anomaly request when the report is
\* not normal and none when it is normal; the request has priority high if
\* the score exceeds 0.8 and medium otherwise.
C13_FlagAnomalyIffNotNormal ==
    ReportReturned =>
        /\ CountOf(json_out.actions, "flag_anomaly")
               = (IF detect.result.is_normal THEN 0 ELSE 1)
        /\ \A i \in 1..Len(json_out.actions) :
              json_out.actions[i].action_type = "flag_anomaly"
                  => json_out.actions[i].priority
                        = (IF 10 * detect.result.anomaly_score > 8 * ScoreUnit
                           THEN "high" ELSE "medium")

\* the amount window read for scoring averages about 150 (within 10)
AboutBaseline(h) ==
    /\ 140 * Len(h) <= SumSeq(h)
    /\ SumSeq(h) <= 160 * Len(h)

\* C14: a record whose amount matches a baseline of at least min_samples
\* samples, and whose report has a score below 0.8 and is normal, gets no
\* action request at all.
C14_BaselineRecordGetsNoAction ==
    (/\ ReportReturned
     /\ Len(detect.historical_amounts) >= MinSamples
     /\ "amount" \in DOMAIN data /\ IsNumber(data["amount"])
     /\ ~detect.amount_anomaly.fired
     /\ detect.result.is_normal
     /\ 10 * detect.result.anomaly_score < 8 * ScoreUnit)
    => json_out.actions = <<>>

\* the record of the end-to-end scenario: a far-off amount, a script
\* fragment in a string field and a timestamp string that parses
ScenarioRecord ==
    /\ IsObject(data)
    /\ "amount" \in DOMAIN data /\ data["amount"] = IntV(1000)
    /\ \E f \in DOMAIN data : HasScriptPattern(data[f])
    /\ "timestamp" \in DOMAIN data /\ ParseTimestamp(data["timestamp"]).ok = "ok"

\* C15: against an amount history of at least 10 samples averaging about
\* 150, the scenario record is reported with the tags unusual_amount_amount
\* and potential_script_injection, a score of at least 0.8 and is_normal
\* false, and gets both a flag_anomaly and a critical risk_alert request.
C15_ScenarioFlaggedAndAlerted ==
    (/\ ReportReturned
     /\ ScenarioRecord
     /\ Len(detect.historical_amounts) >= MinSamples
     /\ AboutBaseline(detect.historical_amounts))
    => /\ HasTag(detect.result.anomalies, "unusual_amount_amount")
       /\ HasTag(detect.result.anomalies, "potential_script_injection")
       /\ 10 * detect.result.anomaly_score >= 8 * ScoreUnit
       /\ ~detect.result.is_normal
       /\ CountOf(json_out.actions, "flag_anomaly") = 1
       /\ ActionRequest("risk_alert", "critical")
              \in {json_out.actions[i] : i \in 1..Len(json_out.actions)}

\* C15 witness: the scenario record has been scored against the baseline
C15_Witness ==
    /\ ReportReturned
    /\ ScenarioRecord
    /\ detect.historical_amounts = BaselineAmounts(MinSamples)
    /\ Len(json_out.actions) = 2

\* C16: whenever the amount window read for scoring holds fewer than
\* min_samples values, the amount detector returns no result: no
\* unusual_<field>_amount tag and no sub-score, whatever the amount.
C16_NoAmountScoreBelowMinSamples ==
    (json_pc # "called" /\ Len(detect.historical_amounts) < MinSamples)
    => /\ ~detect.amount_anomaly.fired
       /\ detect.amount_anomaly.score = 0
       /\ \A x \in UnusualAmountTags : ~HasTag(detect.result.anomalies, x)

\* C16 witness: an amount far from nine earlier samples has been scored
C16_Witness ==
    /\ ReportReturned
    /\ "amount" \in DOMAIN data /\ data["amount"] = IntV(1000)
    /\ detect.historical_amounts = BaselineAmounts(MinSamples - 1)

-----------------------------------------------------------------------------
\* Bounded history windows

\* the values _update_historical_data appends to the amount window for
\* document d, in the order it appends them
AppendedAmounts(d) ==
    LET fs == SelectSeq(amount_fields, LAMBDA f : f \in DOMAIN d /\ IsNumber(d[f]))
    IN  [i \in 1..Len(fs) |-> d[fs[i]].v]

\* the entry _update_historical_data appends to the timestamp window
AppendedTimestamps(d) ==
    IF "timestamp" \in DOMAIN d /\ ParseTimestamp(d["timestamp"]).ok = "ok"
    THEN <<[minute |-> ParseTimestamp(d["timestamp"]).minute,
            aware |-> ParseTimestamp(d["timestamp"]).aware]>>
    ELSE <<>>

\* the most recent cap entries of all, in insertion order
MostRecent(all, cap) ==
    [i \in 1..(IF Len(all) <= cap THEN Len(all) ELSE cap) |->
        all[i + (IF Len(all) <= cap THEN 0 ELSE Len(all) - cap)]]

WindowCapacity(k) ==
    IF k \in {st \o "_amounts" : st \in SchemaTypes}
    THEN AmountCapacity ELSE TimestampCapacity

WithinCapacity == \A k \in HistoryKeys : Len(historical_data[k]) <= WindowCapacity(k)

\* a process_json call that reached _update_historical_data leaves every
\* window as the most recent entries of the old window followed by the
\* entries appended for the record
AppendedOldestEvicted ==
    (ProcessJson /\ json_pc' = "scored") =>
        \A k \in HistoryKeys :
            historical_data'[k] =
                IF k = schema_type \o "_amounts"
                THEN MostRecent(historical_data[k] \o AppendedAmounts(data), AmountCapacity)
                ELSE IF k = schema_type \o "_timestamps"
                THEN MostRecent(historical_data[k] \o AppendedTimestamps(data),
                                TimestampCapacity)
                ELSE historical_data[k]

\* C17: after any sequence of process_json calls every amount window holds
\* at most 1000 samples and every timestamp window at most 100, and each
\* call leaves each window as exactly the most recently appended samples in
\* insertion order (the oldest are evicted).
C17_WindowsBoundedFifo ==
    []WithinCapacity /\ [][AppendedOldestEvicted]_vars

\* C17 witness: a record was appended to an amount window and a timestamp
\* window that were both full, and both are full again
C17_Witness ==
    /\ json_pc = "scored"
    /\ Len(detect.historical_amounts) = AmountCapacity
    /\ AppendedAmounts(data) # <<>>
    /\ AppendedTimestamps(data) # <<>>
    /\ Len(historical_data[schema_type \o "_amounts"]) = AmountCapacity
    /\ Len(historical_data[schema_type \o "_timestamps"]) = TimestampCapacity

-----------------------------------------------------------------------------
\* Concurrency

\* C18: with concurrent process_json tasks and no lock, no other task's
\* mutation falls between a task's history read for scoring and its append
\* and trim: while a task is between the two, the windows of its schema type
\* are the ones it read, its update leaves them as the most recent entries
\* of what it read followed by its own, and no window exceeds its capacity.
C18_ReadAndAppendNotInterleaved ==
    /\ [](\A t \in DOMAIN task :
            task[t].pc = "detected" =>
                Windows(task[t].schema_type, historical_data) = task[t].seen)
    /\ []WithinCapacity
    /\ [][\A t \in DOMAIN task :
            (task[t].pc = "detected" /\ task'[t].pc = "updated") =>
                Windows(task[t].schema_type, historical_data') =
                    [amounts |-> MostRecent(task[t].seen.amounts
                                              \o AppendedAmounts(task[t].data),
                                           AmountCapacity),
                     timestamps |-> MostRecent(task[t].seen.timestamps
                                                 \o AppendedTimestamps(task[t].data),
                                              TimestampCapacity)]]_vars

\* C18 witness: a task is between its read and its append while another
\* task of the same schema type, which has already appended to the window,
\* is suspended in its counter increments
C18_Witness ==
    \E t1 \in DOMAIN task, t2 \in DOMAIN task :
        /\ t1 # t2
        /\ task[t1].schema_type = task[t2].schema_type
        /\ task[t1].pc = "detected"
        /\ task[t2].pc = "counting"
        /\ AppendedAmounts(task[t2].data) # <<>>
        /\ Len(task[t1].seen.amounts) = AmountCapacity

\* the number of increments of counter name that the tasks saw succeed
AckedIncrements(name) ==
    Cardinality({p \in (DOMAIN task) \X (1..4) :
                    p[2] <= Len(task[p[1]].acked) /\ task[p[1]].acked[p[2]] = name})

\* no counter decreases in the step, and at most one counter changes
MonotonicOneAtATime ==
    /\ \A name \in CounterNames : counters'[name] >= counters[name]
    /\ Cardinality({name \in CounterNames : counters'[name] # counters[name]}) <= 1

\* C19: after any interleaving of concurrent increment_counter calls, each
\* counter equals its previous value (0) plus the number of increments of it
\* that succeeded; no step decreases a counter, and an increment of one
\* counter leaves every other counter unchanged.
C19_IncrementsAtomic ==
    /\ [](\A name \in CounterNames : counters[name] = AckedIncrements(name))
    /\ [][MonotonicOneAtATime]_vars

\* C19 witness: every concurrent task has returned with its increment of
\* json_processed acknowledged, and the counter equals their number
C19_Witness ==
    /\ task # <<>>
    /\ \A t \in DOMAIN task :
          task[t].pc = "returned" /\ HasTag(task[t].acked, "json_processed")
    /\ counters["json_processed"] = MaxTasks

\* C20: once concurrent add_agent_decision and add_action_result calls on an
\* existing session have all returned True, the stored session holds every
\* decision and every action result that was added.
C20_NoAppendLost ==
    (/\ caller # <<>>
     /\ \A c \in DOMAIN caller : caller[c].pc = "returned" /\ caller[c].returned)
    => \A c \in DOMAIN caller :
          IF caller[c].op = "add_agent_decision"
          THEN HasTag(session.agent_decisions, c)
          ELSE HasTag(session.actions_triggered, c)

-----------------------------------------------------------------------------
\* History update, malformed input and the sub-detectors

\* C21: once a record is scored, the amount window of its key is the window
\* read for scoring followed by every top-level amount-like field (amount,
\* total, value, price) of the record that holds a number, whether or not
\* the record was tagged anomalous or failed schema validation.
C21_AmountsAppendedUnconditionally ==
    ReportReturned =>
        historical_data[schema_type \o "_amounts"] =
            MostRecent(detect.historical_amounts \o AppendedAmounts(data),
                       AmountCapacity)

\* C21 witness: a record that fails schema validation and is tagged with an
\* unusual amount has been scored, and its amount is the newest sample
C21_Witness ==
    /\ ReportReturned
    /\ ~SchemaValid(data, schema_type)
    /\ detect.amount_anomaly.fired
    /\ ~detect.result.is_normal
    /\ AppendedAmounts(data) = <<1000>>
    /\ LastOf(historical_data[schema_type \o "_amounts"]) = 1000
    /\ Len(historical_data[schema_type \o "_amounts"])
           = Len(detect.historical_amounts) + 1

\* C22: a string that cannot be parsed as JSON is handled without raising:
\* process_json returns the report is_valid = false, tag malformed_json,
\* anomaly_score 1.0 together with exactly one flag_anomaly request of
\* priority high, and no sub-detector is run (none has a result, and the
\* history and the counters are as before the call).
C22_MalformedJsonShortCircuits ==
    (json_pc # "called" /\ JsonDecodeError(data)) =>
        /\ json_pc = "returned"
        /\ ~json_out.result.is_valid
        /\ json_out.result.anomalies = <<"malformed_json">>
        /\ json_out.result.anomaly_score = ScoreUnit
        /\ Len(json_out.actions) = 1
        /\ json_out.actions[1].action_type = "flag_anomaly"
        /\ json_out.actions[1].priority = "high"
        /\ FiredSubResults = {}
        /\ historical_data \in SeededHistories
        /\ \A c \in CounterNames : counters[c] = 0

\* C22 witness: an unparseable string was answered by an agent whose
\* history would let the amount and the rate detector fire
C22_Witness ==
    /\ json_pc = "returned"
    /\ JsonDecodeError(data)
    /\ historical_data["transaction_amounts"] = BaselineAmounts(MinSamples)
    /\ historical_data["transaction_timestamps"] = Burst(RapidSuccession)
    /\ json_out.actions # <<>>

\* the history as it was read for scoring the record in flight, as far as
\* the amount detector reads it
HistoryRead ==
    [k \in HistoryKeys |->
        IF k = schema_type \o "_amounts" THEN detect.historical_amounts ELSE <<>>]

\* the record in flight has a timestamp that is a string but no ISO timestamp
MalformedTimestamp ==
    /\ "timestamp" \in DOMAIN data
    /\ data["timestamp"].t = "str"
    /\ data["timestamp"].s \notin {"iso", "isoz"}

\* C23: a record whose timestamp is a string that is not a valid ISO
\* timestamp gets from the rate detector the tag invalid_timestamp_format
\* with sub-score exactly 0.5; the other three sub-detectors still run (the
\* report carries their results) and the report's score is the maximum over
\* all four.
C23_MalformedTimestampScoresHalf ==
    (ReportReturned /\ MalformedTimestamp) =>
        /\ detect.pattern_anomaly.fired
        /\ detect.pattern_anomaly.anomalies = <<"invalid_timestamp_format">>
        /\ 10 * detect.pattern_anomaly.score = 5 * ScoreUnit
        /\ detect.amount_anomaly = CheckAmountAnomaly(data, schema_type, HistoryRead)
        /\ detect.quality_anomaly = CheckDataQuality(data)
        /\ detect.type_anomaly = CheckTypeAnomalies(data, schema_type)
        /\ detect.result.anomalies =
               detect.amount_anomaly.anomalies \o <<"invalid_timestamp_format">>
               \o detect.quality_anomaly.anomalies \o detect.type_anomaly.anomalies
        /\ detect.result.anomaly_score =
               Min2(SetMax({detect.pattern_anomaly.score} \cup FiredScores), ScoreUnit)

\* C23 witness: a record with a malformed timestamp for which the amount
\* and the data-quality detector fired too, reported with a score above 0.5
C23_Witness ==
    /\ ReportReturned
    /\ MalformedTimestamp
    /\ detect.amount_anomaly.fired
    /\ detect.quality_anomaly.fired
    /\ HasTag(detect.result.anomalies, "invalid_timestamp_format")
    /\ 10 * detect.result.anomaly_score > 5 * ScoreUnit

\* the number of events within the time window before the timestamp cur,
\* events later than cur not counted
TrailingCount(cur, events) ==
    Cardinality({i \in 1..Len(events) :
                    /\ events[i].minute <= cur.minute
                    /\ cur.minute - events[i].minute < TimeWindowMinutes})

\* C24: the rate detector counts only the stored timestamps of the record's
\* key that lie within the 5 minutes before the record's timestamp, not the
\* later ones, and returns the tag rapid_succession_events with sub-score
\* min(1.0, count/10) exactly when that count is at least 5.
C24_RateCountsTrailingWindow ==
    (/\ ReportReturned
     /\ "timestamp" \in DOMAIN data
     /\ ParseTimestamp(data["timestamp"]).ok = "ok"
     /\ ~MixedOffsets(ParseTimestamp(data["timestamp"]), detect.recent_events))
    => LET count == TrailingCount(ParseTimestamp(data["timestamp"]),
                                  detect.recent_events)
       IN  IF count >= 5
           THEN /\ detect.pattern_anomaly.fired
                /\ detect.pattern_anomaly.anomalies = <<"rapid_succession_events">>
                /\ 10 * detect.pattern_anomaly.score
                       = (IF count <= 10 THEN count ELSE 10) * ScoreUnit
           ELSE ~detect.pattern_anomaly.fired

\* C25: the amount detector evaluates every amount-like field present with a
\* numeric value: each such field whose deviation from the window's mean
\* exceeds 3 standard deviations has its own tag unusual_<field>_amount in
\* the result, no other field has one, and the sub-score is
\* min(1.0, (|value - mean| / stddev) / 3.0), which is 1.0 whenever a field
\* fires.
C25_EveryAmountFieldTagged ==
    (ReportReturned /\ EnoughSamples(detect.historical_amounts)) =>
        /\ \A i \in 1..Len(amount_fields) :
              (/\ amount_fields[i] \in DOMAIN data
               /\ IsNumber(data[amount_fields[i]])
               /\ Deviates(data[amount_fields[i]].v, detect.historical_amounts))
              <=> HasTag(detect.amount_anomaly.anomalies,
                         "unusual_" \o amount_fields[i] \o "_amount")
        /\ detect.amount_anomaly.fired => detect.amount_anomaly.score = ScoreUnit

\* the number of top-level fields of the record in flight that are null or
\* the empty string
NullFields == Cardinality({f \in DOMAIN data : data[f] \in {NullV, StrV("empty")}})

\* some string field of the record in flight contains a fragment of the
\* denylist cs, in whatever case
ContainsFragment(cs) ==
    \E f \in DOMAIN data : data[f].t = "str" /\ data[f].s \in cs

\* C26: the data-quality detector tags excessive_null_values, with sub-score
\* equal to the ratio of null or empty top-level fields, exactly when that
\* ratio exceeds 0.3; it tags potential_sql_injection and
\* potential_script_injection, with sub-score 0.9, when a string field
\* contains a denylisted fragment in any case; and its score is the maximum
\* of these checks, never their sum.
C26_DataQualityIsMaxOfChecks ==
    ReportReturned =>
        LET quality == detect.quality_anomaly
            total == Cardinality(DOMAIN data)
            nulls == 10 * NullFields > 3 * total
            sql == ContainsFragment({"sql", "SQL"})
            script == ContainsFragment({"script", "SCRIPT"})
        IN  /\ HasTag(quality.anomalies, "excessive_null_values") <=> nulls
            /\ HasTag(quality.anomalies, "potential_sql_injection") <=> sql
            /\ HasTag(quality.anomalies, "potential_script_injection") <=> script
            /\ quality.fired <=> (nulls \/ sql \/ script)
            /\ quality.score * total =
                   SetMax({0}
                          \cup (IF nulls THEN {NullFields * ScoreUnit} ELSE {})
                          \cup (IF sql \/ script
                                THEN {9 * (ScoreUnit \div 10) * total} ELSE {}))

\* C26 witness: a record with two null fields of three and an SQL fragment
\* in the third, scored 0.9
C26_Witness ==
    /\ ReportReturned
    /\ Cardinality(DOMAIN data) = 3
    /\ NullFields = 2
    /\ ContainsFragment({"sql", "SQL"})
    /\ detect.quality_anomaly.anomalies
           = <<"excessive_null_values", "potential_sql_injection">>
    /\ 10 * detect.quality_anomaly.score = 9 * ScoreUnit

\* the registry fields the record in flight holds with a mismatched type
MismatchedFields ==
    {f \in DOMAIN data :
        /\ HasTag(TypedFields, f)
        /\ ~HasExpectedType(f, data[f])}

\* C27: the type detector returns one tag unexpected_type_<field> for each
\* registry field present with a mismatched type and scores 0.2 times their
\* number, without a cap of its own (six mismatches score 1.2); the score of
\* the report is nevertheless at most 1.0, it is 1.0 for five or more
\* mismatches, and four mismatches (0.8) make the record not normal.
C27_TypeScoreUncappedReportCapped ==
    ReportReturned =>
        LET n == Cardinality(MismatchedFields)
        IN  /\ Len(detect.type_anomaly.anomalies) = n
            /\ \A f \in MismatchedFields :
                  HasTag(detect.type_anomaly.anomalies, "unexpected_type_" \o f)
            /\ detect.type_anomaly.fired <=> n > 0
            /\ 10 * detect.type_anomaly.score = 2 * n * ScoreUnit
            /\ detect.result.anomaly_score <= ScoreUnit
            /\ n >= 5 => detect.result.anomaly_score = ScoreUnit
            /\ n >= 4 => ~detect.result.is_normal

\* C27 witness: a record with exactly four mismatches and nothing else
\* amiss is reported with score 0.8 and is not normal
C27_Witness ==
    /\ ReportReturned
    /\ Cardinality(MismatchedFields) = 4
    /\ FiredSubResults = {detect.type_anomaly}
    /\ 10 * detect.result.anomaly_score = 8 * ScoreUnit
    /\ ~detect.result.is_normal

-----------------------------------------------------------------------------
\* Repeated evaluation

\* two successive evaluations return identical request lists, and a step
\* that evaluates the policy leaves the windows and the counters alone
PolicyRepeatable ==
    /\ (requests.evaluated /\ requests'.evaluated)
           => requests'.actions = requests.actions
    /\ requests' # requests
           => UNCHANGED <<historical_data, history_keys, counters>>

\* C28: the Action Policy (_generate_actions) is deterministic and free of
\* side effects: two evaluations on the same report and the same record
\* return identical request lists (action types, priorities, payloads and
\* correlation ids), and an evaluation changes neither the history windows
\* nor any counter.
C28_PolicyDeterministic == [][PolicyRepeatable]_vars

\* a run of the detectors leaves every window, and the set of keys that
\* have one, as it was
DetectionReadsOnly ==
    detected' # detected =>
        /\ historical_data' = historical_data
        /\ history_keys' = history_keys

-----------------------------------------------------------------------------
\* Store failures

\* C30: a failure of the backing store during the counter operations of
\* process_json is confined to them: a call whose record was scored ends by
\* returning the report and the action requests, never by raising, and the
\* in-memory windows hold the record appended exactly once, within their
\* capacity and in insertion order.
C30_StoreFailureConfined ==
    (ReportReturned /\ json_pc \in {"returned", "raised"}) =>
        /\ json_pc = "returned"
        /\ WithinCapacity
        /\ historical_data[schema_type \o "_amounts"] =
               MostRecent(detect.historical_amounts \o AppendedAmounts(data),
                          AmountCapacity)
        /\ historical_data[schema_type \o "_timestamps"] =
               MostRecent(detect.recent_events \o AppendedTimestamps(data),
                          TimestampCapacity)

-----------------------------------------------------------------------------
\* Reports, counters and frames

\* C31: the tags of a report form a set: after any record is scored, no tag
\* occurs more than once in the report's anomalies, even when several
\* fields trigger the same check.
C31_TagsFormSet ==
    ReportReturned =>
        \A i \in 1..Len(detect.result.anomalies) :
            \A j \in 1..Len(detect.result.anomalies) :
                detect.result.anomalies[i] = detect.result.anomalies[j] => i = j

\* get_entry has returned an entry, get_session a session
EntryRead == reply.op = "get_entry" /\ reply.found
SessionRead == reply.op = "get_session" /\ reply.found

\* the latest arguments stored under the two keys
StoredEntry == written["memory:k"].argument
StoredSession == written["session:s"].argument

\* a get of a key never stored returns None, and a get of a stored key
\* that has not expired, on a reachable store, returns a result
GetsFindWhatIsThere ==
    /\ (reply.op = "get_entry" /\ ~written["memory:k"].stored) => ~reply.found
    /\ (reply.op = "get_session" /\ ~written["session:s"].stored) => ~reply.found
    /\ (reply.op = "get_entry" /\ Reachable /\ Live("memory:k")) => reply.found
    /\ (reply.op = "get_session" /\ Reachable /\ Live("session:s")) => reply.found

SessionWritten == written["session:s"]
StateWritten == written["agent_state:a"]

\* an agent state is there until one hour after it was written, and no
\* longer
AgentStateLivesOneHour ==
    Live("agent_state:a") <=>
        StateWritten.stored /\ utcnow < StateWritten.last + AgentStateTtl

\* C33 (as claimed): a session becomes eligible for eviction 24h after it was
\* first stored, and later appends through add_agent_decision do not extend
\* that deadline; agent state entries expire 1h after they are written.
C33_LifetimeFixedAtFirstStore ==
    /\ Live("session:s") =>
            redis["session:s"].expires_at = SessionWritten.first + SessionTtl
    /\ Live("session:s") <=>
            SessionWritten.stored /\ utcnow < SessionWritten.first + SessionTtl
    /\ AgentStateLivesOneHour

\* C33 (amended): every store_session gives the session key a time to live
\* of 24h, also the one add_agent_decision / add_action_result make after
\* their append, so a session becomes eligible for eviction 24h after its
\* latest store or append; agent state entries expire 1h after they are
\* written.
C33_LifetimeRunsFromLatestStore ==
    /\ Live("session:s") =>
            redis["session:s"].expires_at = SessionWritten.last + SessionTtl
    /\ Live("session:s") <=>
            SessionWritten.stored /\ utcnow < SessionWritten.last + SessionTtl
    /\ AgentStateLivesOneHour

\* a session that got a decision after its first store is still there 24h
\* after that first store
C33_Witness ==
    /\ Live("session:s")
    /\ SessionWritten.first < SessionWritten.last
    /\ utcnow >= SessionWritten.first + SessionTtl

\* the step returns an ActionResult
ResultReturned == Len(results') = Len(results) + 1

\* the step increments the counter that goes with the result it returns, by
\* one, and leaves the other one alone
ResultCounted ==
    ResultReturned =>
        IF results'[Len(results')].status = "success"
        THEN /\ counters'["actions_executed"] = counters["actions_executed"] + 1
             /\ counters'["actions_failed"] = counters["actions_failed"]
        ELSE /\ counters'["actions_failed"] = counters["actions_failed"] + 1
             /\ counters'["actions_executed"] = counters["actions_executed"]

\* C34: each completed route_action call increments exactly one of the
\* counters actions_executed (result 'success') or actions_failed (result
\* 'failed') by exactly 1.
C34_OneCounterPerResult == [][ResultCounted]_vars

\* the calls that returned 'success' and 'failed', as the counters have them
Successes == counters["actions_executed"]
Failures == counters["actions_failed"]

\* C35: after any sequence of successful and failed route_action calls, the
\* success_rate reported by get_action_statistics lies between 0 and 100 and
\* equals 100 x successes / (successes + failures).
C35_SuccessRateIsShareOfSuccesses ==
    (Idle /\ Successes + Failures > 0) =>
        /\ GetActionStatistics.success_rate.num >= 0
        /\ GetActionStatistics.success_rate.num
                <= 100 * GetActionStatistics.success_rate.den
        /\ GetActionStatistics.success_rate.num * (Successes + Failures)
                = 100 * Successes * GetActionStatistics.success_rate.den

\* the step is the tail of a process_json call that scored its record, with
\* the store reachable
RecordCounted == json_pc = "scored" /\ json_pc' = "returned" /\ redis_up

\* the record counts as processed, and as an anomaly exactly when its
\* report is not normal
AnomalyCountedIffNotNormal ==
    RecordCounted =>
        /\ counters'["json_processed"] = counters["json_processed"] + 1
        /\ counters'["anomalies_detected"]
              = counters["anomalies_detected"]
                + (IF detect.result.is_normal THEN 0 ELSE 1)

\* C36: with the store reachable, anomalies_detected counts the processed
\* records whose report had is_normal = false (score >= threshold), and
\* json_processed counts the records that were parsed and scored.
C36_CountersMatchReports == [][AnomalyCountedIffNotNormal]_vars

\* the step is the part of a process_json call that scores the record
RecordScored == json_pc = "called" /\ json_pc' = "scored"

\* the windows the detectors read, and the amount and rate results, are
\* those of the history before the call
ScoredAgainstEarlierHistory ==
    RecordScored =>
        /\ detect'.historical_amounts = historical_data[schema_type \o "_amounts"]
        /\ detect'.recent_events = historical_data[schema_type \o "_timestamps"]
        /\ detect'.amount_anomaly
              = CheckAmountAnomaly(data, schema_type, historical_data)
        /\ detect'.pattern_anomaly
              = CheckPatternAnomaly(data, schema_type, historical_data)
        /\ historical_data'
              = UpdateHistoricalData(data, schema_type, historical_data)

\* C37: a record is scored against the history as it stood before the record
\* arrived; its own amounts and timestamp are appended only after its report
\* and action requests have been computed, so they never contribute to its
\* own mean/stddev or rate count.
C37_ScoredBeforeOwnAppend == [][ScoredAgainstEarlierHistory]_vars

\* a record with an amount and a timestamp was scored against nine earlier
\* amounts, one short of the sample minimum, and got no amount score; its
\* own amount and timestamp are in the windows afterwards
C37_Witness ==
    /\ json_pc = "scored"
    /\ Len(detect.historical_amounts) = MinSamples - 1
    /\ ~detect.amount_anomaly.fired
    /\ Len(historical_data[schema_type \o "_amounts"]) >= MinSamples
    /\ Len(historical_data[schema_type \o "_timestamps"])
          = Len(detect.recent_events) + 1

\* the two windows of the schema type of the record at hand
OwnWindows == {schema_type \o "_amounts", schema_type \o "_timestamps"}

\* a step changes only the windows of the record's schema type, and a
\* record that does not parse changes no window and no counter
OnlyOwnWindowsChange ==
    /\ \A k \in HistoryKeys :
          historical_data'[k] # historical_data[k]
              => k \in OwnWindows /\ ~JsonDecodeError(data)
    /\ history_keys' \subseteq history_keys \cup OwnWindows
    /\ JsonDecodeError(data) /\ json_pc = "called"
          => /\ historical_data' = historical_data
             /\ history_keys' = history_keys
             /\ counters' = counters
             /\ json_pc' = "returned"

\* C38: processing a record of schema type A changes only the windows
\* A_amounts and A_timestamps; the windows of every other schema type are
\* unchanged, and a record rejected as malformed JSON changes no window and
\* no counter at all.
C38_OtherWindowsUntouched == [][OnlyOwnWindowsChange]_vars

\* an order record was appended to the order windows while the transaction
\* windows hold earlier samples
C38_Witness ==
    /\ json_pc = "scored"
    /\ schema_type = "order"
    /\ Len(historical_data["order_amounts"]) > 0
    /\ Len(historical_data["order_timestamps"]) > 0
    /\ Len(historical_data["transaction_amounts"]) > 0
    /\ Len(historical_data["transaction_timestamps"]) > 0

\* C39: with retry_attempts configured as 0, route_action invokes the
\* handler zero times, performs no wait, and still returns exactly one
\* ActionResult with status 'failed'.
C39_ZeroAttemptsFailOnce ==
    (Terminated /\ retry_attempts = 0) =>
        /\ log = <<>>
        /\ now = start_time
        /\ Len(results) = 1
        /\ results[1].status = "failed"

\* process_json returned the report of a record that parsed
ParsedReportReturned == json_pc = "returned" /\ detect.raised = None

\* the schema rejects the record and the detectors find it normal
SchemaFailureAlone ==
    ~SchemaValid(data, schema_type) /\ detect.result.is_normal

=============================================================================
